---- MODULE Spec2Model ----
(***************************************************************************)
(* Admission control of the djangalytics capture pipeline: the two         *)
(* per-minute counters (IPRateLimit, ProjectRateLimit), the rate-limit     *)
(* checks built on them and the capture_event view that calls them.        *)
(*                                                                         *)
(* A check runs inside transaction.atomic().  The store is modelled as a   *)
(* READ COMMITTED database with row locks: a statement sees the rows that  *)
(* are committed plus the caller's own writes, an UPDATE or a conflicting  *)
(* INSERT waits for the transaction that holds the row, and the writes of  *)
(* a transaction become visible when its atomic block exits.               *)
(***************************************************************************)
EXTENDS Integers, FiniteSets, Sequences, TLC

\* ---------------------------------------------------------------- bounds
NumProcs == 2          \* calls that are handled at the same time
MaxCalls == 3          \* rate-limit check calls / capture requests that arrive
MaxNow == 2            \* last clock tick
TicksPerMinute == 2    \* clock ticks in one minute

\* The calls, numbered in their order of arrival; each is handled by a
\* worker of its own.
Procs == 1..MaxCalls

\* A field the request does not carry.
Absent == "<absent>"

\* The JSON payload of a capture request; the optional identity and metadata
\* fields are absent.
Payload(event_name, api_key, source) ==
    [event_name |-> event_name, api_key |-> api_key, source |-> source,
     user_id |-> Absent, session_id |-> Absent,
     user_agent |-> Absent, ip_address |-> Absent]

\* An HTTP request: the peer address, the User-Agent header, the
\* X-Forwarded-For header and the payload.  The forwarded-for header is held
\* as the list of its comma-separated entries, value.split(','): <<>> is the
\* header that is not sent and <<"">> the header sent empty.
HttpRequest(ip, user_agent, data) ==
    [META |-> [REMOTE_ADDR |-> ip, HTTP_USER_AGENT |-> user_agent,
               HTTP_X_FORWARDED_FOR |-> <<>>],
     data |-> data]

\* The request as it arrives through proxies that sent the chain.
Forwarded(request, chain) ==
    [request EXCEPT !.META.HTTP_X_FORWARDED_FOR = chain]

NoHttpRequest == HttpRequest("", Absent, Payload(Absent, Absent, Absent))

\* The capture requests that arrive.
Requests ==
    { HttpRequest("1.1.1.1", "Mozilla/5.0",
          [Payload("signup", "pk_alpha", Absent) EXCEPT
               !.user_id = "u1", !.session_id = "s1"]),
      HttpRequest("2.2.2.2", Absent, Payload(Absent, "pk_unknown", Absent)) }
IPs == {"1.1.1.1", "2.2.2.2"}
None == -1                 \* limit_per_minute=None
IPLimits == {1}            \* limit_per_minute passed to check_ip_rate_limit
Overrides == {None}        \* limit_per_minute passed to check_project_rate_limit

\* ---------------------------------------------------------------- state
VARIABLES
    now,               \* timezone.now(), in ticks
    IPRateLimit,       \* rows of the IPRateLimit table
    ProjectRateLimit,  \* rows of the ProjectRateLimit table
    Project,           \* rows of the Project table
    nextId,            \* next primary key handed out to a counter row
    pc,                \* position of each call, "idle" before and after it
    frame,             \* locals of the rate-limit check a call is in
    ncalls,            \* number of calls that have arrived
    returns,           \* per counter key, what the finished checks returned
    Event,             \* rows of the Event table
    req,               \* locals of capture_event, for a call that is one
    responses,         \* the responses of the finished capture requests
    sampling,          \* a call of should_sample_event: arguments and result
    sweep              \* the calls of cleanup_old_rate_limits

vars == <<now, IPRateLimit, ProjectRateLimit, Project, nextId, pc, frame,
          ncalls, returns, Event, req, responses, sampling, sweep>>

\* What a rate-limit check on its own leaves alone.
captureVars == <<Event, req, responses>>

\* The tenants the model starts with.
InitProjects ==
    { [id |-> "P1", name |-> "alpha", api_key |-> "pk_alpha",
       allowed_sources |-> {"web", "mobile"}, rate_limit_per_minute |-> 2,
       is_active |-> TRUE],
      [id |-> "P2", name |-> "beta", api_key |-> "pk_beta",
       allowed_sources |-> {}, rate_limit_per_minute |-> 0,
       is_active |-> TRUE] }

ProjectIds == {t.id : t \in InitProjects}

\* No call of should_sample_event.
NoSampling ==
    [event_name |-> "", sample_rate |-> 0, called |-> FALSE, draw |-> -1,
     result |-> FALSE]

\* No call of cleanup_old_rate_limits so far.  left holds each of the two
\* counter tables as the last DELETE of the sweeper left it, returned what
\* the finished calls returned.
NoSweep ==
    [pc |-> "idle", days_to_keep |-> 0, cutoff_time |-> 0, ip_deleted |-> 0,
     quiet |-> FALSE, left |-> <<{}, {}>>, returned |-> <<>>]

NoFrame ==
    [scope |-> "ip", key |-> "", minute_bucket |-> 0, limit |-> 0,
     id |-> 0, request_count |-> 0]

\* The locals of capture_event: the request, the two check results, the
\* serializer's validated project.  n is the number of the call, 0 while the
\* call is not a running capture_event; ip_key and project_key record the
\* counters its two checks ran on.
NoRequest ==
    [n |-> 0, request |-> NoHttpRequest,
     ip_key |-> <<>>, ip_allowed |-> FALSE, ip_count |-> 0, ip_limit |-> 0,
     attrs_project |-> "", attrs_user_id |-> "", attrs_session_id |-> "",
     project_name |-> "", project_key |-> <<>>,
     project_allowed |-> FALSE, project_count |-> 0, project_limit |-> 0]

\* ------------------------------------------------------- pure functions
\* now.replace(second=0, microsecond=0)
get_current_minute_bucket(t) == t - (t % TicksPerMinute)

Buckets == {get_current_minute_bucket(t) : t \in 0..MaxNow}

\* The logical keys of the counters: (scope, scope key, minute bucket).
Keys == ({"ip"} \X IPs \X Buckets) \cup ({"project"} \X ProjectIds \X Buckets)

KeyOf(f) == <<f.scope, f.key, f.minute_bucket>>

Table(scope) == IF scope = "ip" THEN IPRateLimit ELSE ProjectRateLimit

\* The rows a statement of worker p sees.
Visible(rows, p) == {r \in rows : r.committed \/ r.writer = p}

ValueCommitted(r, p) == r.request_count

\* The request_count a statement of worker p reads in row r.
ValueFor(r, p) == IF r.writer = p THEN r.dirty ELSE r.request_count

MatchingAnyBucket(rows, key, bucket, p) ==
    {r \in Visible(rows, p) : r.key = key}

MatchingAnyKey(rows, key, bucket, p) ==
    {r \in Visible(rows, p) : r.minute_bucket = bucket}

\* QuerySet.filter(<key>=key, minute_bucket=bucket) as worker p sees it.
Matching(rows, key, bucket, p) ==
    {r \in Visible(rows, p) : r.key = key /\ r.minute_bucket = bucket}

NoUniqueTogether(rows, key, bucket) == {}

\* unique_together: the rows an INSERT of (key, bucket) collides with.
ConflictingRows(rows, key, bucket) ==
    {r \in rows : r.key = key /\ r.minute_bucket = bucket}

StaleIncrement(r, p) == frame[p].request_count + 1

\* request_count = F('request_count') + 1, evaluated by the database.
FIncrement(r, p) == ValueFor(r, p) + 1

SkipIncrement(rows, key, bucket, p) == rows

\* QuerySet.filter(...).update(request_count=F('request_count') + 1)
UpdateRows(rows, key, bucket, p) ==
    {IF r \in Matching(rows, key, bucket, p)
        THEN [r EXCEPT !.writer = p, !.dirty = FIncrement(r, p)]
        ELSE r : r \in rows}

DiscardWrites(rows, p) ==
    {IF r.writer = p THEN [r EXCEPT !.writer = 0, !.dirty = 0] ELSE r :
        r \in {x \in rows : x.committed \/ x.writer # p}}

KeepLocks(rows, p) ==
    {IF r.writer = p
        THEN [r EXCEPT !.request_count = r.dirty, !.committed = TRUE]
        ELSE r : r \in rows}

\* Exit of transaction.atomic() without an exception: commit.
Commit(rows, p) ==
    {IF r.writer = p
        THEN [r EXCEPT !.writer = 0, !.request_count = r.dirty,
                       !.committed = TRUE]
        ELSE r : r \in rows}

\* Exit of transaction.atomic() with an exception: roll back.
Rollback(rows, p) ==
    {IF r.writer = p THEN [r EXCEPT !.writer = 0, !.dirty = 0] ELSE r :
        r \in {x \in rows : x.committed \/ x.writer # p}}

AllowBelow(count, limit) == count < limit

\* is_allowed = rate_limit.request_count <= limit_per_minute
IsAllowed(count, limit) == count <= limit

SetTable(scope, rows) ==
    IF scope = "ip"
        THEN IPRateLimit' = rows /\ UNCHANGED ProjectRateLimit
        ELSE ProjectRateLimit' = rows /\ UNCHANGED IPRateLimit

\* ---------------------------------------------------------------- Init
Init ==
    /\ now = 0
    /\ IPRateLimit = {}
    /\ ProjectRateLimit = {}
    /\ Project = InitProjects
    /\ nextId = 1
    /\ pc = [p \in Procs |-> "idle"]
    /\ frame = [p \in Procs |-> NoFrame]
    /\ ncalls = 0
    /\ returns = [k \in Keys |-> <<>>]
    /\ Event = {}
    /\ req = [p \in Procs |-> NoRequest]
    /\ responses = {}
    /\ sampling = NoSampling
    /\ sweep = NoSweep

\* ------------------------------------------------------------- actions
\* The clock advances.
Tick ==
    /\ now < MaxNow
    /\ now' = now + 1
    /\ UNCHANGED <<IPRateLimit, ProjectRateLimit, Project, nextId, pc, frame,
                   ncalls, returns, captureVars>>
    /\ UNCHANGED <<sampling, sweep>>

\* Call number p arrives and a free worker takes it.
Dispatch(p) ==
    /\ p = ncalls + 1
    /\ Cardinality({q \in Procs : pc[q] # "idle"}) < NumProcs
    /\ ncalls' = ncalls + 1

\* The SELECT of QuerySet.get() made by get_or_create for the locals f of
\* worker p: the position it leads to and the locals it leaves.  One row
\* found is the row to update; none found leads to the INSERT on the first
\* SELECT and is DoesNotExist on the second one.
get(f, p, first) ==
    LET m == Matching(Table(f.scope), f.key, f.minute_bucket, p)
    IN  IF Cardinality(m) = 1
            THEN LET r == CHOOSE x \in m : TRUE
                 IN  [pc |-> "update",
                      frame |-> [f EXCEPT !.id = r.id,
                                          !.request_count = ValueFor(r, p)]]
        ELSE IF m = {} /\ first
            THEN [pc |-> "create", frame |-> f]
        ELSE [pc |-> "raised", frame |-> f]

\* Entry of a rate-limit check up to its first statement: the key, the
\* bucket and the limit are fixed, the atomic block is entered and
\* get_or_create makes its first SELECT.
Enter(p, scope, key, limit) ==
    LET f == [scope |-> scope, key |-> key,
              minute_bucket |-> get_current_minute_bucket(now),
              limit |-> limit, id |-> 0, request_count |-> 0]
        found == get(f, p, TRUE)
    IN  /\ frame' = [frame EXCEPT ![p] = found.frame]
        /\ pc' = [pc EXCEPT ![p] = found.pc]

\* check_ip_rate_limit(request, limit_per_minute) called on its own.
check_ip_rate_limit(p, ip, limit) ==
    /\ Dispatch(p)
    /\ Enter(p, "ip", ip, limit)
    /\ UNCHANGED <<now, IPRateLimit, ProjectRateLimit, Project, nextId,
                   returns, captureVars>>
    /\ UNCHANGED <<sampling, sweep>>

\* The limit capture_event passes to check_ip_rate_limit.
IP_LIMIT_PER_MINUTE == 100

IPLimitForProject(project, limit_per_minute) == IP_LIMIT_PER_MINUTE

ProjectLimitIfFalsy(project, limit_per_minute) ==
    IF limit_per_minute = None \/ limit_per_minute = 0
        THEN project.rate_limit_per_minute
    ELSE limit_per_minute

\* if limit_per_minute is None: limit_per_minute = project.rate_limit_per_minute
ProjectLimit(project, limit_per_minute) ==
    IF limit_per_minute = None THEN project.rate_limit_per_minute
                               ELSE limit_per_minute

\* check_project_rate_limit(project, limit_per_minute) called on its own.
check_project_rate_limit(p, project, limit_per_minute) ==
    /\ Dispatch(p)
    /\ Enter(p, "project", project.id, ProjectLimit(project, limit_per_minute))
    /\ UNCHANGED <<now, IPRateLimit, ProjectRateLimit, Project, nextId,
                   returns, captureVars>>
    /\ UNCHANGED <<sampling, sweep>>

\* get_or_create after an IntegrityError of its INSERT: the second SELECT.
get_or_create_get(p) ==
    /\ pc[p] = "get_again"
    /\ LET found == get(frame[p], p, FALSE)
       IN  /\ frame' = [frame EXCEPT ![p] = found.frame]
           /\ pc' = [pc EXCEPT ![p] = found.pc]
    /\ UNCHANGED <<now, IPRateLimit, ProjectRateLimit, Project, nextId,
                   ncalls, returns, captureVars>>
    /\ UNCHANGED <<sampling, sweep>>

\* get_or_create when the SELECT found no row: the INSERT with
\* request_count = 1.  It waits while another transaction holds an
\* uncommitted row of the same key, and fails with an IntegrityError when a
\* committed row of the key exists or the key is None (the key columns are
\* NOT NULL).
get_or_create_create(p) ==
    /\ pc[p] = "create"
    /\ LET f == frame[p]
           c == ConflictingRows(Table(f.scope), f.key, f.minute_bucket)
       IN  /\ \A r \in c : r.committed \/ r.writer = p
           /\ IF c # {} \/ f.key = Absent
                  THEN /\ pc' = [pc EXCEPT ![p] = "get_again"]
                       /\ UNCHANGED <<IPRateLimit, ProjectRateLimit, nextId,
                                      frame>>
                  ELSE /\ SetTable(f.scope, Table(f.scope) \cup
                              {[id |-> nextId, key |-> f.key,
                                minute_bucket |-> f.minute_bucket,
                                request_count |-> 0, writer |-> p,
                                dirty |-> 1, committed |-> FALSE]})
                       /\ nextId' = nextId + 1
                       /\ frame' = [frame EXCEPT ![p].id = nextId,
                               ![p].request_count = 1]
                       /\ pc' = [pc EXCEPT ![p] = "return"]
    /\ UNCHANGED <<now, Project, ncalls, returns, captureVars>>
    /\ UNCHANGED <<sampling, sweep>>

\* refresh_from_db applied to the table as the UPDATE left it: the row is
\* read again by primary key; no row stands for DoesNotExist.
Refreshed(rows, id, p) == {r \in Visible(rows, p) : r.id = id}

\* if not created: the UPDATE with the F() expression, then
\* rate_limit.refresh_from_db().  The UPDATE waits while another transaction
\* holds a row it has to write; the rows it wrote stay locked, so the re-read
\* that follows sees the table exactly as the UPDATE left it.
F_update(p) ==
    /\ pc[p] = "update"
    /\ LET f == frame[p]
           m == Matching(Table(f.scope), f.key, f.minute_bucket, p)
           rows == UpdateRows(Table(f.scope), f.key, f.minute_bucket, p)
           again == Refreshed(rows, f.id, p)
       IN  /\ \A r \in m : r.writer \in {0, p}
           /\ SetTable(f.scope, rows)
           /\ IF again # {}
                  THEN /\ frame' = [frame EXCEPT ![p].request_count =
                                  ValueFor(CHOOSE r \in again : TRUE, p)]
                       /\ pc' = [pc EXCEPT ![p] = "return"]
                  ELSE /\ pc' = [pc EXCEPT ![p] = "raised"]
                       /\ UNCHANGED frame
    /\ UNCHANGED <<now, Project, nextId, ncalls, returns, captureVars>>
    /\ UNCHANGED <<sampling, sweep>>

usage_swapped(count, limit) == ToString(limit) \o "/" \o ToString(count)

\* f'{ip_count}/{ip_limit}'
usage(count, limit) == ToString(count) \o "/" \o ToString(limit)

\* A Response of capture_event.  error is the 'error' entry of the body,
\* errors are the entries of serializer.errors as (field, message, argument);
\* req records the locals of the call that is answered.
Response(r, status, error, errors, current_count, limit) ==
    [req |-> r, status |-> status,
     error |-> error, errors |-> errors,
     current_count |-> current_count, limit |-> limit,
     retry_after |-> IF status = 429 THEN "60 seconds" ELSE Absent,
     ip_usage |-> IF status = 201 THEN usage(r.ip_count, r.ip_limit)
                                  ELSE Absent,
     project_usage |-> IF status = 201
                           THEN usage(r.project_count, r.project_limit)
                           ELSE Absent]

\* The value a finished check hands to its caller.
Returned(f, raised) ==
    [allowed |-> (~raised /\ IsAllowed(f.request_count, f.limit)),
     current_count |-> IF raised THEN 0 ELSE f.request_count,
     limit |-> f.limit, raised |-> raised]

\* return is_allowed, rate_limit.request_count, limit_per_minute: the
\* atomic block exits and the transaction commits; an exception raised
\* inside the block leaves it by a rollback instead.
atomic_exit(p) ==
    /\ pc[p] \in {"return", "raised"}
    /\ LET f == frame[p]
       IN  /\ SetTable(f.scope,
                  IF pc[p] = "return" THEN Commit(Table(f.scope), p)
                                      ELSE Rollback(Table(f.scope), p))
           /\ returns' = IF KeyOf(f) \in Keys
                  THEN [returns EXCEPT ![KeyOf(f)] =
                            Append(@, Returned(f, pc[p] = "raised"))]
                  ELSE returns
           /\ IF req[p].n = 0
                  THEN /\ pc' = [pc EXCEPT ![p] = "idle"]
                       /\ UNCHANGED <<req, responses>>
              ELSE IF pc[p] = "raised"
                  THEN /\ pc' = [pc EXCEPT ![p] = "idle"]
                       /\ req' = [req EXCEPT ![p] = NoRequest]
                       /\ responses' = responses \cup
                              {Response(req[p], 500, <<"Server Error">>, {},
                                        0, 0)}
              ELSE /\ pc' = [pc EXCEPT ![p] =
                          IF f.scope = "ip" THEN "ip_checked"
                                            ELSE "project_checked"]
                   /\ req' = [req EXCEPT ![p] =
                          IF f.scope = "ip"
                              THEN [@ EXCEPT
                                     !.ip_key = KeyOf(f),
                                     !.ip_allowed =
                                         IsAllowed(f.request_count, f.limit),
                                     !.ip_count = f.request_count,
                                     !.ip_limit = f.limit]
                              ELSE [@ EXCEPT
                                     !.project_allowed =
                                         IsAllowed(f.request_count, f.limit),
                                     !.project_count = f.request_count,
                                     !.project_limit = f.limit]]
                   /\ UNCHANGED responses
    /\ frame' = [frame EXCEPT ![p] = NoFrame]
    /\ UNCHANGED <<now, Project, nextId, ncalls, Event>>
    /\ UNCHANGED <<sampling, sweep>>

\* ------------------------------------------------------- capture_event
\* Python truthiness of the forwarded-for header: None and '' are false.
HeaderGiven(x_forwarded_for) ==
    x_forwarded_for # <<>> /\ x_forwarded_for # <<"">>

\* str.strip() of the strings that occur.
strip(value) ==
    CASE value = " u1 " -> "u1"
      [] value = " 1.1.1.1 " -> "1.1.1.1"
      [] value = " pk_alpha " -> "pk_alpha"
      [] OTHER -> value

\* CharField.to_internal_value of an optional string field: the text with
\* leading and trailing whitespace removed (trim_whitespace is on).
CharField(value) == IF value = Absent THEN Absent ELSE strip(value)

peer_address(request) == request.META.REMOTE_ADDR

\* get_client_ip(request): the first entry of the forwarded-for chain,
\* stripped, if the header is given, else the peer address.  Absent stands
\* for the None of a request without a peer address.
get_client_ip(request) ==
    LET x_forwarded_for == request.META.HTTP_X_FORWARDED_FOR
    IN  IF HeaderGiven(x_forwarded_for)
            THEN strip(x_forwarded_for[1])
        ELSE request.META.REMOTE_ADDR

\* ---------------------------------------------------- identity resolution
\* Python truthiness of an optional string: None and '' are false.
Truthy(v) == v # Absent /\ v # ""

\* dict.get(key, '') of an optional string.
OrEmpty(v) == IF v = Absent THEN "" ELSE v

\* uuid.uuid4().hex[:8]: the values the random draw can take.
Uuid4Hex8 == {"0f3a9c1e", "b7d2e480"}

\* secrets.randbelow(10000): the values the random draw can take.
RandomDigits == {7, 9999}

\* hashlib.sha256(hash_input).hexdigest()[:8] of the inputs that occur.
sha256_hex8(hash_input) ==
    CASE hash_input = "1.1.1.1:Mozilla/5.0" -> "cd05638b"
      [] hash_input = "1.1.1.1:curl/8.0" -> "3947e260"
      [] hash_input = "2.2.2.2:Mozilla/5.0" -> "a57287d3"
      [] hash_input = "2.2.2.2:curl/8.0" -> "1a6c3948"
      [] hash_input = "9.9.9.9:spoof" -> "8f5fe1a3"

\* No request in the serializer context, no fallback_data.
NoFallback == [ip_address |-> Absent, user_agent |-> Absent]

random_user_id(request, fallback_data, uuid) == "anon_" \o uuid

\* generate_anonymous_user_id(request, fallback_data); uuid is the value
\* uuid4 would draw.
generate_anonymous_user_id(request, fallback_data, uuid) ==
    LET ip_address == IF request # NoHttpRequest THEN get_client_ip(request)
                      ELSE fallback_data.ip_address
        user_agent == IF request # NoHttpRequest
                          THEN OrEmpty(request.META.HTTP_USER_AGENT)
                      ELSE OrEmpty(fallback_data.user_agent)
    IN  IF Truthy(ip_address) /\ Truthy(user_agent)
            THEN "anon_" \o sha256_hex8(ip_address \o ":" \o user_agent)
        ELSE "anon_" \o uuid

\* The clock starts in the last minute of 2025-09-07.
Midnight == TicksPerMinute

\* timezone.now().strftime('%Y%m%d')
strftime_Ymd(t) == IF t < Midnight THEN "20250907" ELSE "20250908"

FormatPlain(n) == ToString(n)

\* f"{random_digits:04d}"
Format04d(n) ==
    IF n < 10 THEN "000" \o ToString(n)
    ELSE IF n < 100 THEN "00" \o ToString(n)
    ELSE IF n < 1000 THEN "0" \o ToString(n)
    ELSE ToString(n)

\* generate_session_id(user_id, existing_session_id) at clock t;
\* random_digits is the value randbelow would draw.
generate_session_id(user_id, existing_session_id, t, random_digits) ==
    IF Truthy(existing_session_id) THEN existing_session_id
    ELSE (IF Truthy(user_id) THEN user_id ELSE "unknown")
             \o "_" \o strftime_Ymd(t) \o "_" \o Format04d(random_digits)

ProjectByKey(projects, api_key) ==
    {t \in projects : t.api_key = api_key}

\* Project.objects.get(api_key=api_key, is_active=True); no row stands for
\* Project.DoesNotExist.
ActiveProject(projects, api_key) ==
    {t \in projects : t.api_key = api_key /\ t.is_active}

source_in_list(project, source) == source \in project.allowed_sources

\* Project.is_source_allowed
is_source_allowed(project, source) ==
    IF project.allowed_sources = {} THEN TRUE
    ELSE source \in project.allowed_sources

\* max_length of Event.user_id and Event.session_id.
max_length == 64

NoFieldErrors(data, projects) == {}

FieldErrorsOneMessage(data, projects) ==
    (IF data.event_name = Absent
         THEN {<<"event_name", "This field is required.", "">>} ELSE {})
    \cup
    (IF ActiveProject(projects, data.api_key) = {}
         THEN {<<"api_key", "Invalid or inactive API key", "">>}
     ELSE {})

\* Field validation of EventCreateSerializer: every field is validated and
\* the errors of all fields are collected; validate_api_key runs on a
\* supplied api_key as the CharField hands it on.
FieldErrors(data, projects) ==
    (IF data.event_name = Absent
         THEN {<<"event_name", "This field is required.", "">>} ELSE {})
    \cup
    (IF data.api_key = Absent
         THEN {<<"api_key", "This field is required.", "">>}
     ELSE IF ActiveProject(projects, CharField(data.api_key)) = {}
         THEN {<<"api_key", "Invalid or inactive API key", "">>}
     ELSE {})
    \cup
    {<<field, "Ensure this field has no more than 64 characters.", "">> :
        field \in {f \in {"user_id", "session_id"} :
                      /\ data[f] # Absent
                      /\ Len(CharField(data[f])) > max_length}}

\* The worker answers the request and becomes idle.
Respond(p, response) ==
    /\ responses' = responses \cup {response}
    /\ req' = [req EXCEPT ![p] = NoRequest]
    /\ pc' = [pc EXCEPT ![p] = "idle"]

\* capture_event, entry: the view calls check_ip_rate_limit(request, 100).
capture_event(p, request) ==
    /\ Dispatch(p)
    /\ req' = [req EXCEPT ![p] =
            [NoRequest EXCEPT !.n = p, !.request = request]]
    /\ Enter(p, "ip", get_client_ip(request), IP_LIMIT_PER_MINUTE)
    /\ UNCHANGED <<now, IPRateLimit, ProjectRateLimit, Project, nextId,
                   returns, Event, responses>>
    /\ UNCHANGED <<sampling, sweep>>

validate_before_ip_check(p) ==
    /\ pc[p] = "ip_checked"
    /\ LET r == req[p]
           errors == FieldErrors(r.request.data, Project)
       IN  IF errors # {}
               THEN Respond(p, Response(r, 400, <<>>, errors, 0, 0))
           ELSE IF ~r.ip_allowed
               THEN Respond(p, Response(r, 429,
                        <<"Rate limit exceeded for IP address">>, {},
                        r.ip_count, r.ip_limit))
           ELSE /\ pc' = [pc EXCEPT ![p] = "validate"]
                /\ UNCHANGED <<req, responses>>
    /\ UNCHANGED <<now, IPRateLimit, ProjectRateLimit, Project, nextId, frame,
                   ncalls, returns, Event>>
    /\ UNCHANGED <<sampling, sweep>>

\* capture_event after the IP check: the 429 of a request that is not
\* allowed, else serializer.is_valid() up to the end of field validation.
is_valid_fields(p) ==
    /\ pc[p] = "ip_checked"
    /\ LET r == req[p]
           errors == FieldErrors(r.request.data, Project)
       IN  IF ~r.ip_allowed
               THEN Respond(p, Response(r, 429,
                        <<"Rate limit exceeded for IP address">>, {},
                        r.ip_count, r.ip_limit))
           ELSE IF errors # {}
               THEN Respond(p, Response(r, 400, <<>>, errors, 0, 0))
           ELSE /\ pc' = [pc EXCEPT ![p] = "validate"]
                /\ UNCHANGED <<req, responses>>
    /\ UNCHANGED <<now, IPRateLimit, ProjectRateLimit, Project, nextId, frame,
                   ncalls, returns, Event>>
    /\ UNCHANGED <<sampling, sweep>>

\* The attrs field validation hands to validate(): the api_key, the user_id
\* and the session_id are CharFields of the serializer.
to_internal_value(data) ==
    [data EXCEPT !.api_key = CharField(data.api_key),
                 !.user_id = CharField(data.user_id),
                 !.session_id = CharField(data.session_id)]

supplied_user_id(request, attrs, uuid) == attrs.user_id

payload_user_id(request, attrs, uuid) ==
    IF Truthy(attrs.user_id) THEN attrs.user_id
    ELSE IF Truthy(attrs.ip_address) /\ Truthy(attrs.user_agent)
        THEN generate_anonymous_user_id(NoHttpRequest,
                 [ip_address |-> attrs.ip_address,
                  user_agent |-> attrs.user_agent], uuid)
    ELSE generate_anonymous_user_id(request, NoFallback, uuid)

\* The user_id EventCreateSerializer.validate leaves in attrs: the supplied
\* one, or if not user_id the generated one.
validate_user_id(request, attrs, uuid) ==
    IF Truthy(attrs.user_id) THEN attrs.user_id
    ELSE generate_anonymous_user_id(request, NoFallback, uuid)

\* The session_id EventCreateSerializer.validate leaves in attrs: the
\* supplied one, or if not session_id generate_session_id(user_id).
validate_session_id(user_id, attrs, t, random_digits) ==
    IF Truthy(attrs.session_id) THEN attrs.session_id
    ELSE generate_session_id(user_id, Absent, t, random_digits)

\* The draws validate makes for an id: none when the id is supplied (one
\* value stands for the draw that is not made), else any of draws.
Drawn(supplied, draws) ==
    IF Truthy(supplied) THEN {CHOOSE v \in draws : TRUE} ELSE draws

\* EventCreateSerializer.validate: the project is read again, the source is
\* checked against it and the user and session ids are resolved.
serializer_validate(p) ==
    /\ pc[p] = "validate"
    /\ LET r == req[p]
           data == r.request.data
           attrs == to_internal_value(data)
           found == ActiveProject(Project, attrs.api_key)
           source == IF data.source = Absent THEN "web" ELSE data.source
       IN  IF found = {}
               THEN Respond(p, Response(r, 500, <<"Server Error">>, {}, 0, 0))
           ELSE LET project == CHOOSE t \in found : TRUE
                IN  IF ~is_source_allowed(project, source)
                        THEN Respond(p, Response(r, 400, <<>>,
                                 {<<"source",
                                    "Source is not allowed for this project",
                                    source>>}, 0, 0))
                    ELSE /\ \E uuid \in Drawn(attrs.user_id, Uuid4Hex8),
                                digits \in Drawn(attrs.session_id,
                                                 RandomDigits) :
                             LET user_id ==
                                     validate_user_id(r.request, attrs, uuid)
                             IN  req' = [req EXCEPT
                                     ![p].attrs_project = project.id,
                                     ![p].attrs_user_id = user_id,
                                     ![p].attrs_session_id =
                                         validate_session_id(user_id, attrs,
                                                             now, digits)]
                         /\ pc' = [pc EXCEPT ![p] = "lookup"]
                         /\ UNCHANGED responses
    /\ UNCHANGED <<now, IPRateLimit, ProjectRateLimit, Project, nextId, frame,
                   ncalls, returns, Event>>
    /\ UNCHANGED <<sampling, sweep>>

\* capture_event, the view's own Project lookup by request.data.get('api_key'),
\* the key as the client sent it: 401 when it finds no active project, else
\* the call check_project_rate_limit(project).
view_lookup(p) ==
    /\ pc[p] = "lookup"
    /\ LET r == req[p]
           found == ActiveProject(Project, r.request.data.api_key)
       IN  IF found = {}
               THEN /\ Respond(p, Response(r, 401, <<"Invalid API key">>, {},
                                           0, 0))
                    /\ UNCHANGED frame
           ELSE LET project == CHOOSE t \in found : TRUE
                IN  /\ req' = [req EXCEPT ![p].project_name = project.name,
                            ![p].project_key =
                                <<"project", project.id,
                                  get_current_minute_bucket(now)>>]
                    /\ Enter(p, "project", project.id,
                             ProjectLimit(project, None))
                    /\ UNCHANGED responses
    /\ UNCHANGED <<now, IPRateLimit, ProjectRateLimit, Project, nextId,
                   ncalls, returns, Event>>
    /\ UNCHANGED <<sampling, sweep>>

client_metadata(request, data) ==
    [user_agent |-> OrEmpty(data.user_agent), ip_address |-> data.ip_address]

\* EventCreateSerializer.create: the user_agent and ip_address the event is
\* stored with.  With a request in the serializer context they are taken
\* from the request, else they are the validated payload fields.
request_metadata(request, data) ==
    IF request # NoHttpRequest
        THEN [user_agent |-> OrEmpty(request.META.HTTP_USER_AGENT),
              ip_address |-> get_client_ip(request)]
    ELSE [user_agent |-> OrEmpty(data.user_agent),
          ip_address |-> data.ip_address]

\* Event.objects.create(project=project, **validated_data); capture_event
\* puts the request in the serializer context.
NewEvent(r) ==
    LET metadata == request_metadata(r.request, r.request.data)
    IN  [request |-> r.n, project |-> r.attrs_project,
         event_name |-> r.request.data.event_name,
         source |-> IF r.request.data.source = Absent
                        THEN "web" ELSE r.request.data.source,
         user_id |-> r.attrs_user_id, session_id |-> r.attrs_session_id,
         user_agent |-> metadata.user_agent,
         ip_address |-> metadata.ip_address]

\* A user_id or session_id of the event is longer than its column.
Oversized(e) == Len(e.user_id) > max_length \/ Len(e.session_id) > max_length

save_unchecked(p) ==
    /\ pc[p] = "project_checked"
    /\ Event' = Event \cup {NewEvent(req[p])}
    /\ Respond(p, Response(req[p], 201, <<>>, {}, 0, 0))
    /\ UNCHANGED <<now, IPRateLimit, ProjectRateLimit, Project, nextId, frame,
                   ncalls, returns>>
    /\ UNCHANGED <<sampling, sweep>>

\* capture_event after the project check: the 429 of a request that is not
\* allowed, else serializer.save() and the 201.  Event.objects.create does
\* not validate the lengths: a value longer than its column is stored as it
\* is by a database that does not enforce varchar lengths and makes the
\* INSERT fail on one that does.
save(p) ==
    /\ pc[p] = "project_checked"
    /\ LET r == req[p]
       IN  IF ~r.project_allowed
               THEN /\ Respond(p, Response(r, 429,
                            <<"Rate limit exceeded for project",
                              r.project_name>>, {},
                            r.project_count, r.project_limit))
                    /\ UNCHANGED Event
           ELSE \/ /\ Event' = Event \cup {NewEvent(r)}
                   /\ Respond(p, Response(r, 201, <<>>, {}, 0, 0))
                \/ /\ Oversized(NewEvent(r))
                   /\ Respond(p, Response(r, 500, <<"Server Error">>, {},
                                           0, 0))
                   /\ UNCHANGED Event
    /\ UNCHANGED <<now, IPRateLimit, ProjectRateLimit, Project, nextId, frame,
                   ncalls, returns>>
    /\ UNCHANGED <<sampling, sweep>>

\* The counter tables at the start of the capture runs: the address 2.2.2.2
\* has made all the requests its limit allows in the first minute.
InitCapture ==
    /\ now = 0
    /\ IPRateLimit =
           {[id |-> 1, key |-> "2.2.2.2", minute_bucket |-> 0,
             request_count |-> IP_LIMIT_PER_MINUTE, writer |-> 0,
             dirty |-> 0, committed |-> TRUE]}
    /\ ProjectRateLimit = {}
    /\ Project = InitProjects
    /\ nextId = 2
    /\ pc = [p \in Procs |-> "idle"]
    /\ frame = [p \in Procs |-> NoFrame]
    /\ ncalls = 0
    /\ returns = [k \in Keys |-> <<>>]
    /\ Event = {}
    /\ req = [p \in Procs |-> NoRequest]
    /\ responses = {}
    /\ sampling = NoSampling
    /\ sweep = NoSweep

NextCapture ==
    \/ Tick
    \/ \E p \in Procs, request \in Requests : capture_event(p, request)
    \/ \E p \in Procs : get_or_create_get(p)
    \/ \E p \in Procs : get_or_create_create(p)
    \/ \E p \in Procs : F_update(p)
    \/ \E p \in Procs : atomic_exit(p)
    \/ \E p \in Procs : is_valid_fields(p)
    \/ \E p \in Procs : serializer_validate(p)
    \/ \E p \in Procs : view_lookup(p)
    \/ \E p \in Procs : save(p)

SpecCapture == InitCapture /\ [][NextCapture]_vars

\* The capture requests of one clock reading: the same runs with the clock
\* standing still.
NextReported ==
    \/ \E p \in Procs, request \in Requests : capture_event(p, request)
    \/ \E p \in Procs : get_or_create_get(p)
    \/ \E p \in Procs : get_or_create_create(p)
    \/ \E p \in Procs : F_update(p)
    \/ \E p \in Procs : atomic_exit(p)
    \/ \E p \in Procs : is_valid_fields(p)
    \/ \E p \in Procs : serializer_validate(p)
    \/ \E p \in Procs : view_lookup(p)
    \/ \E p \in Procs : save(p)

SpecReported == InitCapture /\ [][NextReported]_vars

\* ------------------------------------------------------ tenant settings
\* The fields a PUT of project_settings changes.
SettingsChanges ==
    { [is_active |-> FALSE], [allowed_sources |-> {"mobile"}] }

\* ProjectSerializer(project, data=data, partial=True).save(): the fields in
\* data replace those of the project.
UpdatedProject(project, data) ==
    [f \in DOMAIN project |->
        IF f \in DOMAIN data THEN data[f] ELSE project[f]]

\* project_settings, PUT: the active project of the api_key is updated with
\* the fields of data; an api_key without an active project is answered 401
\* and changes nothing.
project_settings(api_key, data) ==
    /\ LET found == ActiveProject(Project, api_key)
       IN  /\ found # {}
           /\ Project' = (Project \ found)
                  \cup {UpdatedProject(t, data) : t \in found}
           /\ Project' # Project
    /\ UNCHANGED <<now, IPRateLimit, ProjectRateLimit, nextId, pc, frame,
                   ncalls, returns, captureVars>>
    /\ UNCHANGED <<sampling, sweep>>

\* A deployment with a single worker: a request is taken when no other is
\* being handled.
OneWorker == \A q \in Procs : pc[q] = "idle"

\* The capture requests of the runs with changing tenant settings, all from
\* one client: a valid one, a valid one with a high-frequency event name,
\* one with a source alpha does not list, one for beta with that source, one
\* without event_name, one without api_key and one with an unknown api_key.
SettingsRequests ==
    { HttpRequest("1.1.1.1", "Mozilla/5.0",
          [Payload(event_name, api_key, source) EXCEPT !.session_id = "s1"]) :
        <<event_name, api_key, source>> \in
            { <<"signup", "pk_alpha", Absent>>,
              <<"scroll", "pk_alpha", Absent>>,
              <<"signup", "pk_alpha", "desktop">>,
              <<"signup", "pk_beta", "desktop">>,
              <<Absent, "pk_alpha", Absent>>,
              <<"signup", Absent, Absent>>,
              <<"signup", "pk_unknown", Absent>> } }

\* Capture requests handled one at a time while the settings of alpha change
\* at any moment.
NextSettings ==
    \/ \E p \in Procs :
           /\ OneWorker
           /\ \E request \in SettingsRequests : capture_event(p, request)
    \/ \E p \in Procs : get_or_create_create(p)
    \/ \E p \in Procs : F_update(p)
    \/ \E p \in Procs : atomic_exit(p)
    \/ \E p \in Procs : is_valid_fields(p)
    \/ \E p \in Procs : serializer_validate(p)
    \/ \E p \in Procs : view_lookup(p)
    \/ \E p \in Procs : save(p)
    \/ \E data \in SettingsChanges : project_settings("pk_alpha", data)

SpecSettings == Init /\ [][NextSettings]_vars

\* ------------------------------------------------------ limits in effect
\* The limit_per_minute check_project_rate_limit is called with: none, and
\* overrides below and above the tenants' own limits.
LimitOverrides == {None, 0, 5}

\* The rate limit a PUT of project_settings sets.
LimitChanges == { [rate_limit_per_minute |-> 1] }

\* Capture requests and calls of check_project_rate_limit with and without
\* an override, handled one at a time, while the rate limit of alpha changes
\* at any moment.
NextLimits ==
    \/ \E p \in Procs :
           /\ OneWorker
           /\ \E request \in Requests : capture_event(p, request)
    \/ \E p \in Procs :
           /\ OneWorker
           /\ \E project \in Project, limit \in LimitOverrides :
                  check_project_rate_limit(p, project, limit)
    \/ \E p \in Procs : get_or_create_create(p)
    \/ \E p \in Procs : F_update(p)
    \/ \E p \in Procs : atomic_exit(p)
    \/ \E p \in Procs : is_valid_fields(p)
    \/ \E p \in Procs : serializer_validate(p)
    \/ \E p \in Procs : view_lookup(p)
    \/ \E p \in Procs : save(p)
    \/ \E data \in LimitChanges : project_settings("pk_alpha", data)

SpecLimits == Init /\ [][NextLimits]_vars

\* ------------------------------------------------------- identity runs
\* The capture requests of the identity runs: valid events for alpha, with
\* user_id and session_id supplied (the user_id also padded with blanks),
\* empty or absent, with and without a User-Agent header and a peer address,
\* and with or without user_agent and ip_address fields in the payload.
IdentityRequests ==
    { HttpRequest(ip, ua,
          [Payload("signup", "pk_alpha", Absent) EXCEPT
              !.user_id = user_id, !.session_id = session_id,
              !.user_agent = metadata[1], !.ip_address = metadata[2]]) :
        ip \in {"1.1.1.1", Absent}, ua \in {"Mozilla/5.0", Absent},
        user_id \in {"u1", " u1 ", "", Absent},
        session_id \in {"s1", "", Absent},
        metadata \in {<<Absent, Absent>>, <<"spoof", "9.9.9.9">>} }

\* What a client sends with every request: its address, its User-Agent and
\* the ids it supplies.
ClientOf(request) ==
    <<request.META, request.data.user_id, request.data.session_id>>

\* The request comes from the client of the requests before it.
SameClient(request) ==
    \A r \in responses : ClientOf(r.req.request) = ClientOf(request)

\* The identity runs start at the first or at the last tick of the clock.
InitIdentity ==
    /\ now \in {0, MaxNow}
    /\ IPRateLimit = {}
    /\ ProjectRateLimit = {}
    /\ Project = InitProjects
    /\ nextId = 1
    /\ pc = [p \in Procs |-> "idle"]
    /\ frame = [p \in Procs |-> NoFrame]
    /\ ncalls = 0
    /\ returns = [k \in Keys |-> <<>>]
    /\ Event = {}
    /\ req = [p \in Procs |-> NoRequest]
    /\ responses = {}
    /\ sampling = NoSampling
    /\ sweep = NoSweep

\* The requests of one client, handled one at a time.
NextIdentity ==
    \/ \E p \in Procs :
           /\ OneWorker
           /\ \E request \in IdentityRequests :
                  SameClient(request) /\ capture_event(p, request)
    \/ \E p \in Procs : get_or_create_get(p)
    \/ \E p \in Procs : get_or_create_create(p)
    \/ \E p \in Procs : F_update(p)
    \/ \E p \in Procs : atomic_exit(p)
    \/ \E p \in Procs : is_valid_fields(p)
    \/ \E p \in Procs : serializer_validate(p)
    \/ \E p \in Procs : view_lookup(p)
    \/ \E p \in Procs : save(p)

SpecIdentity == InitIdentity /\ [][NextIdentity]_vars

\* ------------------------------------------------------ forwarded runs
\* The capture requests of the forwarded runs: valid events for alpha without
\* a user_id, from either peer address, with no forwarded-for header, an
\* empty one, a single entry, and a chain whose first entry is padded.
ForwardedRequests ==
    { Forwarded(HttpRequest(ip, "Mozilla/5.0",
                    [Payload("signup", "pk_alpha", Absent) EXCEPT
                         !.session_id = "s1"]), chain) :
        ip \in IPs,
        chain \in {<<>>, <<"">>, <<"2.2.2.2">>,
                   <<" 1.1.1.1 ", "2.2.2.2">>} }

\* Requests that arrive directly and through proxies, handled one at a time.
NextForwarded ==
    \/ \E p \in Procs :
           /\ OneWorker
           /\ \E request \in ForwardedRequests : capture_event(p, request)
    \/ \E p \in Procs : get_or_create_create(p)
    \/ \E p \in Procs : F_update(p)
    \/ \E p \in Procs : atomic_exit(p)
    \/ \E p \in Procs : is_valid_fields(p)
    \/ \E p \in Procs : serializer_validate(p)
    \/ \E p \in Procs : view_lookup(p)
    \/ \E p \in Procs : save(p)

SpecForwarded == Init /\ [][NextForwarded]_vars

\* ------------------------------------------------------ retention sweep
\* timedelta(days=1), in clock ticks.
Day == 1440 * TicksPerMinute

\* The days_to_keep cleanup_old_rate_limits is called with.
DaysToKeep == {0, 7}

ExpiredOrAtCutoff(rows, cutoff_time) ==
    {r \in rows : r.committed /\ r.minute_bucket <= cutoff_time}

ExpiredOne(rows, cutoff_time) ==
    LET old == {r \in rows : r.committed /\ r.minute_bucket < cutoff_time}
    IN  IF old = {} THEN {} ELSE {CHOOSE r \in old : TRUE}

AllCommitted(rows, cutoff_time) == {r \in rows : r.committed}

\* QuerySet.filter(minute_bucket__lt=cutoff_time) as a statement outside any
\* transaction sees it: the committed rows older than the cutoff.
Expired(rows, cutoff_time) ==
    {r \in rows : r.committed /\ r.minute_bucket < cutoff_time}

\* cleanup_old_rate_limits(days_to_keep), entry: the cutoff is computed from
\* the clock.  quiet records that the counter tables are as the previous
\* call of the sweeper left them.
cleanup_old_rate_limits(days_to_keep) ==
    /\ sweep.pc = "idle"
    /\ ncalls < MaxCalls
    /\ ncalls' = ncalls + 1
    /\ sweep' = [sweep EXCEPT
           !.pc = "delete_ip", !.days_to_keep = days_to_keep,
           !.cutoff_time = now - days_to_keep * Day, !.ip_deleted = 0,
           !.quiet = (<<IPRateLimit, ProjectRateLimit>> = sweep.left)]
    /\ UNCHANGED <<now, IPRateLimit, ProjectRateLimit, Project, nextId, pc,
                   frame, returns, captureVars, sampling>>

\* IPRateLimit.objects.filter(minute_bucket__lt=cutoff_time).delete()[0]: one
\* DELETE statement, which waits while a transaction holds a row it has to
\* delete.
delete_ip ==
    /\ sweep.pc = "delete_ip"
    /\ LET deleted == Expired(IPRateLimit, sweep.cutoff_time)
       IN  /\ \A r \in deleted : r.writer = 0
           /\ IPRateLimit' = IPRateLimit \ deleted
           /\ sweep' = [sweep EXCEPT
                  !.pc = "delete_project",
                  !.ip_deleted = Cardinality(deleted),
                  !.quiet = (sweep.quiet /\
                             <<IPRateLimit, ProjectRateLimit>> = sweep.left),
                  !.left = <<IPRateLimit', ProjectRateLimit>>]
    /\ UNCHANGED <<now, ProjectRateLimit, Project, nextId, pc, frame, ncalls,
                   returns, captureVars, sampling>>

\* ProjectRateLimit.objects.filter(minute_bucket__lt=cutoff_time).delete()[0]
\* and return ip_deleted, project_deleted.
delete_project ==
    /\ sweep.pc = "delete_project"
    /\ LET deleted == Expired(ProjectRateLimit, sweep.cutoff_time)
           quiet == sweep.quiet /\
                        <<IPRateLimit, ProjectRateLimit>> = sweep.left
       IN  /\ \A r \in deleted : r.writer = 0
           /\ ProjectRateLimit' = ProjectRateLimit \ deleted
           /\ sweep' = [sweep EXCEPT
                  !.pc = "idle", !.quiet = quiet,
                  !.left = <<sweep.left[1], ProjectRateLimit'>>,
                  !.returned = Append(@,
                      [days_to_keep |-> sweep.days_to_keep,
                       cutoff_time |-> sweep.cutoff_time,
                       ip_deleted |-> sweep.ip_deleted,
                       project_deleted |-> Cardinality(deleted),
                       quiet |-> quiet])]
    /\ UNCHANGED <<now, IPRateLimit, Project, nextId, pc, frame, ncalls,
                   returns, captureVars, sampling>>

\* A committed counter row.
CounterRow(id, key, minute_bucket, request_count) ==
    [id |-> id, key |-> key, minute_bucket |-> minute_bucket,
     request_count |-> request_count, writer |-> 0, dirty |-> 0,
     committed |-> TRUE]

\* The counter tables at the start of the sweep runs: rows that are ten
\* days, exactly seven days and one day old.
InitSweep ==
    /\ now = 0
    /\ IPRateLimit = {CounterRow(1, "1.1.1.1", 0 - 10 * Day, 5),
                      CounterRow(2, "1.1.1.1", 0 - 7 * Day, 2)}
    /\ ProjectRateLimit = {CounterRow(3, "P1", 0 - 10 * Day, 3),
                           CounterRow(4, "P1", 0 - Day, 1)}
    /\ Project = InitProjects
    /\ nextId = 5
    /\ pc = [p \in Procs |-> "idle"]
    /\ frame = [p \in Procs |-> NoFrame]
    /\ ncalls = 0
    /\ returns = [k \in Keys |-> <<>>]
    /\ Event = {}
    /\ req = [p \in Procs |-> NoRequest]
    /\ responses = {}
    /\ sampling = NoSampling
    /\ sweep = NoSweep

\* Rate-limit checks of one address and one tenant while the sweeper runs.
NextSweep ==
    \/ Tick
    \/ \E p \in Procs, limit \in IPLimits :
           check_ip_rate_limit(p, "1.1.1.1", limit)
    \/ \E p \in Procs, project \in ActiveProject(Project, "pk_alpha") :
           check_project_rate_limit(p, project, None)
    \/ \E p \in Procs : get_or_create_get(p)
    \/ \E p \in Procs : get_or_create_create(p)
    \/ \E p \in Procs : F_update(p)
    \/ \E p \in Procs : atomic_exit(p)
    \/ \E days_to_keep \in DaysToKeep : cleanup_old_rate_limits(days_to_keep)
    \/ delete_ip
    \/ delete_project

SpecSweep == InitSweep /\ [][NextSweep]_vars

\* ------------------------------------------------------ fair scheduling
\* A valid capture request for the tenant of api_key from the address ip.
LiveRequest(ip, api_key) ==
    HttpRequest(ip, "Mozilla/5.0",
        [Payload("signup", api_key, Absent) EXCEPT
             !.user_id = "u1", !.session_id = "s1"])

\* The mixes of capture requests of the fair runs: two requests that
\* contend on the IP counter and then on the tenant counter, on the tenant
\* counter only, and on the IP counter only.
LiveMixes ==
    { <<LiveRequest("1.1.1.1", "pk_alpha"),
        LiveRequest("1.1.1.1", "pk_alpha")>>,
      <<LiveRequest("1.1.1.1", "pk_alpha"),
        LiveRequest("2.2.2.2", "pk_alpha")>>,
      <<LiveRequest("1.1.1.1", "pk_alpha"),
        LiveRequest("1.1.1.1", "pk_unknown")>> }

LiveRequests == UNION { {mix[i] : i \in DOMAIN mix} : mix \in LiveMixes }

\* How often request is among the requests that have arrived, were it to
\* arrive now.
Arrivals(request, arriving) ==
    Cardinality({q \in Procs : req[q].n # 0 /\ req[q].request = request})
    + Cardinality({r \in responses : r.req.request = request})
    + (IF request = arriving THEN 1 ELSE 0)

\* The requests that have arrived and the arriving one are part of a mix.
InMix(arriving) ==
    \E mix \in LiveMixes : \A request \in LiveRequests :
        Arrivals(request, arriving) <=
            Cardinality({i \in DOMAIN mix : mix[i] = request})

\* The fair runs start in the middle of a minute, with empty counter tables.
InitLive ==
    /\ now = 1
    /\ IPRateLimit = {}
    /\ ProjectRateLimit = {}
    /\ Project = InitProjects
    /\ nextId = 1
    /\ pc = [p \in Procs |-> "idle"]
    /\ frame = [p \in Procs |-> NoFrame]
    /\ ncalls = 0
    /\ returns = [k \in Keys |-> <<>>]
    /\ Event = {}
    /\ req = [p \in Procs |-> NoRequest]
    /\ responses = {}
    /\ sampling = NoSampling
    /\ sweep = NoSweep

\* The next statement of the capture request worker p is running.
Step(p) ==
    \/ get_or_create_get(p)
    \/ get_or_create_create(p)
    \/ F_update(p)
    \/ atomic_exit(p)
    \/ is_valid_fields(p)
    \/ serializer_validate(p)
    \/ view_lookup(p)
    \/ save(p)

\* The requests of a mix and one sweep that keeps nothing, at the same time.
NextLive ==
    \/ \E p \in Procs, request \in LiveRequests :
           InMix(request) /\ capture_event(p, request)
    \/ \E p \in Procs : Step(p)
    \/ sweep.returned = <<>> /\ cleanup_old_rate_limits(0)
    \/ delete_ip
    \/ delete_project

\* Every worker thread and the sweeper keep running: a statement that stays
\* possible is executed.
Fairness ==
    /\ \A p \in Procs : WF_vars(Step(p))
    /\ WF_vars(delete_ip \/ delete_project)

SpecLive == InitLive /\ [][NextLive]_vars /\ Fairness

\* ------------------------------------------------------ quota runs
\* The capture requests of the quota runs: valid events for alpha from two
\* addresses.
QuotaRequests ==
    {LiveRequest("1.1.1.1", "pk_alpha"), LiveRequest("2.2.2.2", "pk_alpha")}

\* The counter tables at the start of the quota runs: the address 1.1.1.1
\* has made all but one of the requests its limit allows in the first
\* minute.
InitQuota ==
    /\ now = 0
    /\ IPRateLimit =
           {CounterRow(1, "1.1.1.1", 0, IP_LIMIT_PER_MINUTE - 1)}
    /\ ProjectRateLimit = {}
    /\ Project = InitProjects
    /\ nextId = 2
    /\ pc = [p \in Procs |-> "idle"]
    /\ frame = [p \in Procs |-> NoFrame]
    /\ ncalls = 0
    /\ returns = [k \in Keys |-> <<>>]
    /\ Event = {}
    /\ req = [p \in Procs |-> NoRequest]
    /\ responses = {}
    /\ sampling = NoSampling
    /\ sweep = NoSweep

\* Concurrent capture requests within one minute.
NextQuota ==
    \/ \E p \in Procs, request \in QuotaRequests : capture_event(p, request)
    \/ \E p \in Procs : Step(p)

SpecQuota == InitQuota /\ [][NextQuota]_vars

\* ------------------------------------------------------ api key runs
\* The capture requests of the api key runs: the key of alpha as it is and
\* padded with blanks, no key and an unknown key.
KeyRequests ==
    { LiveRequest("1.1.1.1", api_key) :
        api_key \in {"pk_alpha", " pk_alpha ", Absent, "pk_unknown"} }

\* The PUT of project_settings that deactivates the tenant.
KeyChanges == { [is_active |-> FALSE] }

\* Capture requests handled one at a time while alpha is deactivated at any
\* moment.
NextKeys ==
    \/ \E p \in Procs :
           /\ OneWorker
           /\ \E request \in KeyRequests : capture_event(p, request)
    \/ \E p \in Procs : get_or_create_create(p)
    \/ \E p \in Procs : F_update(p)
    \/ \E p \in Procs : atomic_exit(p)
    \/ \E p \in Procs : is_valid_fields(p)
    \/ \E p \in Procs : serializer_validate(p)
    \/ \E p \in Procs : view_lookup(p)
    \/ \E p \in Procs : save(p)
    \/ \E data \in KeyChanges : project_settings("pk_alpha", data)

SpecKeys == Init /\ [][NextKeys]_vars

\* ------------------------------------------------------ id lengths
\* The capture requests of the length runs: valid events for alpha with a
\* user_id of 2, 50, 51, 64 and 65 characters, with and without a session_id.
LengthRequests ==
    LET ten == "0123456789"
        fifty == ten \o ten \o ten \o ten \o ten
    IN  { HttpRequest("1.1.1.1", "Mozilla/5.0",
              [Payload("signup", "pk_alpha", Absent) EXCEPT
                   !.user_id = user_id, !.session_id = session_id]) :
            user_id \in {"u1", fifty, fifty \o "a", fifty \o ten \o "abcd",
                         fifty \o ten \o "abcde"},
            session_id \in {Absent, "s1"} }

\* Requests with ids of several lengths, handled one at a time.
NextLength ==
    \/ \E p \in Procs :
           /\ OneWorker
           /\ \E request \in LengthRequests : capture_event(p, request)
    \/ \E p \in Procs : get_or_create_create(p)
    \/ \E p \in Procs : F_update(p)
    \/ \E p \in Procs : atomic_exit(p)
    \/ \E p \in Procs : is_valid_fields(p)
    \/ \E p \in Procs : serializer_validate(p)
    \/ \E p \in Procs : view_lookup(p)
    \/ \E p \in Procs : save(p)

SpecLength == Init /\ [][NextLength]_vars

\* ------------------------------------------------------ read endpoints
\* The api_key query parameter of the read endpoints: none, the key of an
\* active tenant, an unknown key.
ReadKeys == {Absent, "pk_alpha", "pk_unknown"}

\* The queryset of get_stats and get_events: all events, or those of the
\* active project of the api_key; no such project is DoesNotExist.
Queryset(api_key) ==
    IF ~Truthy(api_key) THEN [found |-> TRUE, events |-> Event]
    ELSE LET project == ActiveProject(Project, api_key)
         IN  [found |-> project # {},
              events |-> {e \in Event : \E t \in project : e.project = t.id}]

\* The Response of a read endpoint to call number n.
ReadResponse(endpoint, n, status, body) ==
    [endpoint |-> endpoint, n |-> n, status |-> status, body |-> body]

\* A read endpoint takes call number ncalls + 1 and answers it.
ReadAnswer(response) ==
    /\ ncalls < MaxCalls
    /\ ncalls' = ncalls + 1
    /\ responses' = responses \cup {response}
    /\ UNCHANGED <<now, IPRateLimit, ProjectRateLimit, Project, nextId, pc,
                   frame, returns, Event, req, sampling, sweep>>

\* get_stats: 401 for a key without an active project, else the aggregates
\* of the queryset, of which total_events is kept.
get_stats(api_key) ==
    LET queryset == Queryset(api_key)
    IN  ReadAnswer(IF queryset.found
                       THEN ReadResponse("get_stats", ncalls + 1, 200,
                                         Cardinality(queryset.events))
                   ELSE ReadResponse("get_stats", ncalls + 1, 401, 0))

get_events_counted(api_key) ==
    /\ ncalls < MaxCalls
    /\ ncalls' = ncalls + 1
    /\ responses' = responses \cup
           {ReadResponse("get_events", ncalls + 1, 200, {})}
    /\ IPRateLimit' =
           {[r EXCEPT !.request_count = @ + 1] : r \in IPRateLimit}
    /\ UNCHANGED <<now, ProjectRateLimit, Project, nextId, pc, frame,
                   returns, Event, req, sampling, sweep>>

\* get_events: 401 for a key without an active project, else the events of
\* the queryset, given by the requests that stored them.
get_events(api_key) ==
    LET queryset == Queryset(api_key)
    IN  ReadAnswer(IF queryset.found
                       THEN ReadResponse("get_events", ncalls + 1, 200,
                                         {e.request : e \in queryset.events})
                   ELSE ReadResponse("get_events", ncalls + 1, 401, {}))

\* get_projects: the active projects.
get_projects ==
    ReadAnswer(ReadResponse("get_projects", ncalls + 1, 200,
                            {t.id : t \in {x \in Project : x.is_active}}))

\* Capture requests handled one at a time, and calls of the read and the
\* settings endpoints at any moment.
NextReads ==
    \/ \E p \in Procs :
           /\ OneWorker
           /\ \E request \in QuotaRequests : capture_event(p, request)
    \/ \E p \in Procs : get_or_create_create(p)
    \/ \E p \in Procs : F_update(p)
    \/ \E p \in Procs : atomic_exit(p)
    \/ \E p \in Procs : is_valid_fields(p)
    \/ \E p \in Procs : serializer_validate(p)
    \/ \E p \in Procs : view_lookup(p)
    \/ \E p \in Procs : save(p)
    \/ \E api_key \in ReadKeys : get_stats(api_key)
    \/ \E api_key \in ReadKeys : get_events(api_key)
    \/ get_projects
    \/ \E data \in SettingsChanges : project_settings("pk_alpha", data)

SpecReads == Init /\ [][NextReads]_vars

\* ------------------------------------------------------------- sampling
\* The event names should_sample_event treats as high-frequency.
high_frequency_events ==
    {"direction_changed", "hedgehog_flap", "mouse_move", "scroll",
     "key_press"}

\* The event names should_sample_event is called with.
EventNames == high_frequency_events \cup {"user_signup", "page_view"}

\* The sample rates it is called with, in thousandths: 0.0, 0.005, 0.1 (the
\* default), 0.5, 1.0 and 1.5.  Their products with 100 are exact in binary
\* floating point.
SampleRates == {0, 5, 100, 500, 1000, 1500}

\* secrets.randbelow(100)
Draws == 0..99

AtMostRate(draw, sample_rate) == draw * 10 <= sample_rate

\* secrets.randbelow(100) < (sample_rate * 100), for a rate in thousandths.
BelowRate(draw, sample_rate) == draw * 10 < sample_rate

\* should_sample_event(event_name, sample_rate)
should_sample_event ==
    /\ ~sampling.called
    /\ IF sampling.event_name \in high_frequency_events
           THEN \E draw \in Draws :
                    sampling' = [sampling EXCEPT
                        !.called = TRUE, !.draw = draw,
                        !.result = BelowRate(draw, sampling.sample_rate)]
           ELSE sampling' = [sampling EXCEPT !.called = TRUE,
                                             !.result = TRUE]
    /\ UNCHANGED <<now, IPRateLimit, ProjectRateLimit, Project, nextId, pc,
                   frame, ncalls, returns, captureVars, sweep>>

\* A call of should_sample_event with any event name and sample rate.
InitSampling ==
    /\ now = 0
    /\ IPRateLimit = {}
    /\ ProjectRateLimit = {}
    /\ Project = InitProjects
    /\ nextId = 1
    /\ pc = [p \in Procs |-> "idle"]
    /\ frame = [p \in Procs |-> NoFrame]
    /\ ncalls = 0
    /\ returns = [k \in Keys |-> <<>>]
    /\ Event = {}
    /\ req = [p \in Procs |-> NoRequest]
    /\ responses = {}
    /\ sampling \in {[NoSampling EXCEPT !.event_name = event_name,
                                        !.sample_rate = sample_rate] :
                         event_name \in EventNames,
                         sample_rate \in SampleRates}
    /\ sweep = NoSweep

NextSampling == should_sample_event

SpecSampling == InitSampling /\ [][NextSampling]_vars

Next ==
    \/ Tick
    \/ \E p \in Procs, ip \in IPs, limit \in IPLimits :
           check_ip_rate_limit(p, ip, limit)
    \/ \E p \in Procs, project \in Project, limit \in Overrides :
           check_project_rate_limit(p, project, limit)
    \/ \E p \in Procs : get_or_create_get(p)
    \/ \E p \in Procs : get_or_create_create(p)
    \/ \E p \in Procs : F_update(p)
    \/ \E p \in Procs : atomic_exit(p)

Spec == Init /\ [][Next]_vars

\* ------------------------------------------------------------ properties
Min(a, b) == IF a < b THEN a ELSE b

\* The committed counter rows of a logical key.
RowsOf(k) ==
    {r \in Table(k[1]) : r.committed /\ r.key = k[2] /\ r.minute_bucket = k[3]}

\* The stored counter of a logical key, 0 when it has no row.
StoredCount(k) ==
    IF RowsOf(k) = {} THEN 0 ELSE (CHOOSE r \in RowsOf(k) : TRUE).request_count

\* The workers that are inside a check of key k.
Inside(k) == {p \in Procs : pc[p] # "idle" /\ KeyOf(frame[p]) = k}

\* C1: after N finished check calls for a (scope, key, bucket), whatever
\* their interleaving, no call has failed and the stored counter of the key
\* is exactly N (there is no row while N = 0).
C1_NoLostUpdate ==
    \A k \in Keys :
        LET N == Len(returns[k])
        IN  /\ \A i \in 1..N : ~returns[k][i].raised
            /\ (N = 0) = (RowsOf(k) = {})
            /\ \A r \in RowsOf(k) : r.request_count = N

\* Two calls of a key have finished and a third one, concurrent with them,
\* holds the row with its own increment.
C1_Witness ==
    \E k \in Keys : \E p \in Inside(k) :
        /\ Len(returns[k]) = 2
        /\ StoredCount(k) = 2
        /\ pc[p] = "return" /\ frame[p].request_count = 3

\* C2: the current_count values returned for one key are pairwise distinct
\* and are exactly 1..N; when all N calls used the same limit L, exactly
\* min(N, L) of them were allowed.
C2_Linearizable ==
    \A k \in Keys :
        LET log == returns[k]
            N == Len(log)
        IN  /\ \A i, j \in 1..N :
                   i # j => log[i].current_count # log[j].current_count
            /\ {log[i].current_count : i \in 1..N} = 1..N
            /\ \A L \in {log[i].limit : i \in 1..N} :
                   (\A i \in 1..N : log[i].limit = L) =>
                       Cardinality({i \in 1..N : log[i].allowed}) = Min(N, L)

\* Three callers of one key under the same limit 1: the first was allowed
\* with count 1, the second has read back count 2 and still holds the row,
\* the third waits to increment it.
C2_Witness ==
    \E k \in Keys : \E p, q \in Inside(k) :
        /\ Len(returns[k]) = 1
        /\ returns[k][1].limit = 1 /\ returns[k][1].allowed
        /\ pc[p] = "return" /\ frame[p].limit = 1
        /\ frame[p].request_count = 2
        /\ pc[q] = "update" /\ frame[q].limit = 1

\* C3: the k-th check of a key in a bucket returns (k <= L, k, L).
C3_KthCall ==
    \A k \in Keys : \A i \in 1..Len(returns[k]) :
        /\ returns[k][i].current_count = i
        /\ returns[k][i].allowed = (i <= returns[k][i].limit)

\* Limit 2: calls 1 and 2 were allowed, call 3 is the first rejected one.
C3_Witness ==
    \E k \in Keys :
        /\ Len(returns[k]) = 3
        /\ \A i \in 1..3 : returns[k][i].limit = 2
        /\ returns[k][1].allowed /\ returns[k][2].allowed
        /\ ~returns[k][3].allowed /\ returns[k][3].current_count = 3

\* C4: every finished check call, allowed or not, has raised the stored
\* counter of its key by exactly 1.
C4_AlwaysIncrements ==
    [][\A k \in Keys :
          Len(returns'[k]) # Len(returns[k]) =>
              /\ Len(returns'[k]) = Len(returns[k]) + 1
              /\ StoredCount(k)' = StoredCount(k) + 1]_vars

\* Two rejected calls in a row: the counter went on to 2.
C4_Witness ==
    \E k \in Keys :
        /\ Len(returns[k]) = 2
        /\ ~returns[k][1].allowed /\ ~returns[k][2].allowed
        /\ StoredCount(k) = 2

\* C5: a check of key K in bucket B leaves the counter of K in every other
\* bucket unchanged, and the first check of K in a bucket returns
\* current_count = 1 and is allowed whenever its limit is at least 1.
C5_BucketsIndependent ==
    [][\A k \in Keys :
          Len(returns'[k]) # Len(returns[k]) =>
              /\ \A k2 \in Keys :
                     (k2[1] = k[1] /\ k2[2] = k[2] /\ k2[3] # k[3]) =>
                         RowsOf(k2)' = RowsOf(k2)
              /\ Len(returns[k]) = 0 =>
                     /\ returns'[k][1].current_count = 1
                     /\ returns'[k][1].allowed = (returns'[k][1].limit >= 1)]_vars

\* A key was over its limit in one bucket and is allowed again, with count
\* 1, in the next one; the row of the earlier bucket keeps its count.
C5_Witness ==
    \E k, k2 \in Keys :
        /\ k2[1] = k[1] /\ k2[2] = k[2] /\ k2[3] > k[3]
        /\ Len(returns[k]) = 2 /\ ~returns[k][2].allowed
        /\ Len(returns[k2]) = 1 /\ returns[k2][1].allowed
        /\ returns[k2][1].current_count = 1
        /\ StoredCount(k) = 2 /\ StoredCount(k2) = 1

\* C6: a check of one scope key changes no counter row of any other scope
\* key, in either table, and leaves the other table as it is.
C6_KeysIndependent ==
    [][\A k \in Keys :
          Len(returns'[k]) # Len(returns[k]) =>
              /\ \A k2 \in Keys :
                     (k2[1] # k[1] \/ k2[2] # k[2]) => RowsOf(k2)' = RowsOf(k2)
              /\ k[1] = "ip" => ProjectRateLimit' = ProjectRateLimit
              /\ k[1] = "project" => IPRateLimit' = IPRateLimit]_vars

\* Two IPs and a tenant, each checked once in the same bucket: every one of
\* them got current_count = 1.
C6_Witness ==
    \E b \in Buckets : \E i1, i2 \in IPs : \E t \in ProjectIds :
        /\ i1 # i2
        /\ \A k \in {<<"ip", i1, b>>, <<"ip", i2, b>>, <<"project", t, b>>} :
               /\ Len(returns[k]) = 1
               /\ returns[k][1].current_count = 1
               /\ StoredCount(k) = 1

\* All rows of a logical key, committed or not.
AllRowsOf(k) ==
    {r \in Table(k[1]) : r.key = k[2] /\ r.minute_bucket = k[3]}

\* C7: each table holds at most one row per (scope key, minute bucket), and
\* an INSERT for a key that has a row adds nothing and fails with an
\* IntegrityError.
C7_UniqueRows ==
    /\ [](\A k \in Keys : Cardinality(AllRowsOf(k)) <= 1)
    /\ [][\A p \in Procs :
            (pc[p] = "create" /\ pc'[p] # "create"
                /\ AllRowsOf(KeyOf(frame[p])) # {}) =>
                    /\ pc'[p] = "get_again"
                    /\ IPRateLimit' = IPRateLimit
                    /\ ProjectRateLimit' = ProjectRateLimit]_vars

\* Two callers found the row absent; the second one's INSERT failed and the
\* key has a single row.
C7_Witness ==
    \E p \in Procs :
        /\ pc[p] = "get_again"
        /\ Cardinality(AllRowsOf(KeyOf(frame[p]))) = 1

\* ------------------------------------------------- capture properties
\* The project of a counter key of the tenant scope.
TenantOf(k) == CHOOSE t \in Project : t.id = k[2]

ProjectKeys == {k \in Keys : k[1] = "project"}

\* The finished capture requests whose tenant check ran on counter k.
Admitted(k) == {r \in responses : r.req.project_key = k}

\* The running capture requests that have reached the tenant check of k.
Admitting(k) == {p \in Procs : req[p].n # 0 /\ req[p].project_key = k}

Persisted(r) == {e \in Event : e.request = r.req.n}

\* C8: of the k requests that reach the admission of a tenant with quota Q
\* in one bucket, every one that has finished ended in a 201 with its event
\* persisted for that tenant or in a 429 that names the tenant and reports
\* the request's own current_count > Q and limit = Q; once all k have
\* finished, min(k, Q) of them are 201 and the other k - min(k, Q) are 429.
C8_TenantQuota ==
    \A k \in ProjectKeys :
        LET t == TenantOf(k)
            Q == t.rate_limit_per_minute
            n == Len(returns[k])
            done == Admitted(k)
            ok == {r \in done : r.status = 201}
            rej == {r \in done : r.status = 429}
        IN  /\ \A r \in done : r.status \in {201, 429}
            /\ \A r \in ok :
                   /\ Cardinality(Persisted(r)) = 1
                   /\ \A e \in Persisted(r) : e.project = t.id
            /\ \A r \in rej :
                   /\ r.error = <<"Rate limit exceeded for project", t.name>>
                   /\ r.current_count > Q /\ r.current_count <= n
                   /\ r.limit = Q
                   /\ r.retry_after = "60 seconds"
                   /\ Persisted(r) = {}
            /\ \A r1, r2 \in rej :
                   r1 # r2 => r1.current_count # r2.current_count
            /\ Admitting(k) = {} =>
                   /\ Cardinality(ok) = Min(n, Q)
                   /\ Cardinality(rej) = n - Min(n, Q)

\* Quota 2 and three requests in one bucket: two 201 and one 429 that
\* reports current_count = 3, limit = 2.
C8_Witness ==
    \E k \in ProjectKeys :
        /\ TenantOf(k).rate_limit_per_minute = 2
        /\ Admitting(k) = {}
        /\ Cardinality({r \in Admitted(k) : r.status = 201}) = 2
        /\ \E r \in Admitted(k) :
               r.status = 429 /\ r.current_count = 3 /\ r.limit = 2

\* C9: a request whose IP check returned allowed = false ends in the 429 of
\* the IP scope with the returned current_count, the limit and retry_after
\* "60 seconds"; it reports no validation error, reaches no tenant counter
\* and persists no event.
C9_IPAdmissionFirst ==
    \A r \in responses :
        ~r.req.ip_allowed =>
            /\ r.status = 429
            /\ r.error = <<"Rate limit exceeded for IP address">>
            /\ r.current_count = r.req.ip_count
            /\ r.current_count > IP_LIMIT_PER_MINUTE
            /\ r.limit = IP_LIMIT_PER_MINUTE
            /\ r.retry_after = "60 seconds"
            /\ r.errors = {}
            /\ r.req.project_key = <<>>
            /\ Persisted(r) = {}

\* A request without event_name and with an unknown api_key, sent from an
\* address that is over its limit, got the 429 of the IP scope.
C9_Witness ==
    \E r \in responses :
        /\ ~r.req.ip_allowed
        /\ r.req.request.data.event_name = Absent
        /\ ActiveProject(Project, r.req.request.data.api_key) = {}
        /\ r.status = 429 /\ r.current_count = IP_LIMIT_PER_MINUTE + 1

\* The one error the stage order of field validation lets a request report:
\* the event name is validated before the api key.
FirstFieldError(data, projects) ==
    IF data.event_name = Absent
        THEN {<<"event_name", "This field is required.", "">>}
    ELSE IF data.api_key = Absent
        THEN {<<"api_key", "This field is required.", "">>}
    ELSE IF ActiveProject(projects, data.api_key) = {}
        THEN {<<"api_key", "Invalid or inactive API key", "">>}
    ELSE {}

\* The rejection reasons a response reports.
Reasons(r) ==
    (IF r.error # <<>> THEN {<<"error", r.error[1], "">>} ELSE {})
        \cup r.errors

\* C10: every rejected capture request reports exactly one rejection reason,
\* the one of the earliest failing stage: a request that fails the event
\* name and the api key at once reports only the event name.
C10_OneReason ==
    \A r \in responses :
        r.status \in {400, 401, 429} =>
            /\ Cardinality(Reasons(r)) = 1
            /\ (r.req.ip_allowed /\ r.status = 400
                    /\ FirstFieldError(r.req.request.data, Project) # {}) =>
                   r.errors = FirstFieldError(r.req.request.data, Project)

\* -------------------------------------------- validation and authentication
\* The api keys of the registered tenants.
KnownKeys == {t.api_key : t \in InitProjects}

\* The finished capture requests whose check of scope ran on counter k.
CountedOn(k) ==
    {r \in responses : IF k[1] = "ip" THEN r.req.ip_key = k
                                     ELSE r.req.project_key = k}

Answer(p) == {r \in responses' \ responses : r.req.n = p}

ApiKeyErrors(r) == {e[2] : e \in {x \in r.errors : x[1] = "api_key"}}

SourceOf(data) == IF data.source = Absent THEN "web" ELSE data.source

\* The (message, source) pairs a response reports under the field 'source'.
SourceErrors(r) ==
    {<<e[2], e[3]>> : e \in {x \in r.errors : x[1] = "source"}}

\* C14: when validate() finds the active tenant of a request, the request
\* is rejected with a 400 whose only error is the one under 'source', naming
\* the request's source ('web' for an absent one), if and only if the
\* tenant's allowed_sources is non-empty and does not contain that source;
\* otherwise the request goes on to the view's lookup.  No other step
\* reports an error under 'source'.
C14_SourceAuthorization ==
    /\ [][\A p \in Procs :
            LET data == req[p].request.data
                tenants == {t \in Project :
                               t.api_key = data.api_key /\ t.is_active}
            IN  (pc[p] = "validate" /\ pc'[p] # "validate"
                    /\ tenants # {}) =>
                  \A t \in tenants :
                    LET refused == /\ t.allowed_sources # {}
                                   /\ SourceOf(data) \notin t.allowed_sources
                    IN  /\ refused =>
                               /\ pc'[p] = "idle"
                               /\ \E r \in Answer(p) :
                                      /\ r.status = 400
                                      /\ r.errors =
                                           {<<"source",
                                              "Source is not allowed for this project",
                                              SourceOf(data)>>}
                        /\ ~refused =>
                               /\ pc'[p] = "lookup"
                               /\ Answer(p) = {}]_vars
    /\ [][\A p \in Procs : \A r \in Answer(p) :
            SourceErrors(r) # {} => pc[p] = "validate"]_vars

\* alpha refused 'desktop', alpha with allowed_sources changed to mobile only
\* refused a request without source as 'web', and beta, whose list is empty,
\* let 'desktop' through to its tenant check.
C14_Witness ==
    \E r1, r2, r3 \in responses :
        /\ r1.req.request.data.source = "desktop"
        /\ SourceErrors(r1) =
               {<<"Source is not allowed for this project", "desktop">>}
        /\ r2.req.request.data.source = Absent
        /\ SourceErrors(r2) =
               {<<"Source is not allowed for this project", "web">>}
        /\ r3.req.request.data.source = "desktop"
        /\ r3.req.attrs_project = "P2"
        /\ r3.req.project_key # <<>>

\* ------------------------------------------------------------- identity
\* The request an event was captured from.
RequestOf(e) == (CHOOSE r \in responses : r.req.n = e.request).req.request

\* The serializer contexts: with a request, and without one.
Contexts == IdentityRequests \cup {NoHttpRequest}

\* The payloads of the identity runs.
IdentityPayloads == {request.data : request \in IdentityRequests}

\* validate() leaves a non-empty user_id and session_id in attrs for every
\* payload, context, clock and random draw.
ResolvedIdsNonEmpty ==
    \A request \in Contexts, data \in IdentityPayloads, t \in 0..MaxNow,
       uuid \in Uuid4Hex8, digits \in RandomDigits :
        LET attrs == to_internal_value(data)
            user_id == validate_user_id(request, attrs, uuid)
        IN  /\ Truthy(user_id)
            /\ Truthy(validate_session_id(user_id, attrs, t, digits))

\* C15: every persisted event has a non-empty user_id and a non-empty
\* session_id, whether the client supplied them, sent them empty or left
\* them out, and with or without a User-Agent and a peer address; validate()
\* resolves non-empty ids for every such input, with or without a request in
\* its context.
C15_IdsNeverEmpty ==
    /\ ResolvedIdsNonEmpty
    /\ \A e \in Event :
           /\ e.user_id # Absent /\ e.user_id # ""
           /\ e.session_id # Absent /\ e.session_id # ""

\* An event of a request with an empty user_id, no session_id and no
\* User-Agent is stored with a random anonymous id and a derived session id.
C15_Witness ==
    \E e \in Event :
        /\ RequestOf(e).data.user_id = ""
        /\ RequestOf(e).data.session_id = Absent
        /\ RequestOf(e).META.HTTP_USER_AGENT = Absent
        /\ e.user_id = "anon_0f3a9c1e"
        /\ e.session_id = "anon_0f3a9c1e_20250907_0007"

\* generate_session_id returns a non-empty existing_session_id unchanged,
\* whatever user_id is.
ExistingSessionKept ==
    \A user_id \in {"u1", "", Absent}, existing \in {"s1"},
       t \in 0..MaxNow, digits \in RandomDigits :
        generate_session_id(user_id, existing, t, digits) = existing

\* C16: an event of a request that supplies a non-empty user_id is stored
\* with that user_id, and an event of a request that supplies a non-empty
\* session_id is stored with that session_id; generate_session_id returns a
\* non-empty existing session id unchanged for every user_id.
C16_SuppliedIdsKept ==
    /\ ExistingSessionKept
    /\ \A e \in Event :
           LET data == RequestOf(e).data
           IN  /\ (data.user_id # Absent /\ data.user_id # "") =>
                      e.user_id = data.user_id
               /\ (data.session_id # Absent /\ data.session_id # "") =>
                      e.session_id = data.session_id

\* fallback_data values: none, an address with a user agent, an address alone.
Fallbacks ==
    { NoFallback,
      [ip_address |-> "2.2.2.2", user_agent |-> "curl/8.0"],
      [ip_address |-> "2.2.2.2", user_agent |-> Absent] }

\* The (ip, user agent) pair generate_anonymous_user_id works from.
IdentityInputs(request, fallback_data) ==
    IF request # NoHttpRequest
        THEN <<request.META.REMOTE_ADDR, request.META.HTTP_USER_AGENT>>
    ELSE <<fallback_data.ip_address, fallback_data.user_agent>>

\* Whenever the ip and the user agent are both non-empty, two calls of
\* generate_anonymous_user_id for the same pair return the same id whatever
\* uuid4 would draw, and the id is 'anon_' followed by 8 characters.
AnonymousIdDeterministic ==
    \A request \in Contexts, fallback_data \in Fallbacks :
        LET pair == IdentityInputs(request, fallback_data)
        IN  (pair[1] \notin {Absent, ""} /\ pair[2] \notin {Absent, ""}) =>
                \A uuid1, uuid2 \in Uuid4Hex8 :
                    LET id1 == generate_anonymous_user_id(request,
                                   fallback_data, uuid1)
                        id2 == generate_anonymous_user_id(request,
                                   fallback_data, uuid2)
                    IN  /\ id1 = id2
                        /\ Len(id1) = 13
                        /\ \E h \in {"cd05638b", "1a6c3948"} :
                               id1 = "anon_" \o h

ServerDate(t) == IF t < TicksPerMinute THEN "20250907" ELSE "20250908"

\* The 4-digit forms of the numbers randbelow can draw.
FourDigits == {"0007", "9999"}

\* generate_session_id without an existing session id: the user_id, or
\* 'unknown' for an empty or absent one, then the date and four digits.
DerivedSessionShape ==
    \A user_id \in {"u1", "anon_cd05638b", "", Absent}, t \in 0..MaxNow,
       digits \in RandomDigits :
        LET id == generate_session_id(user_id, Absent, t, digits)
            head == IF user_id \in {"", Absent} THEN "unknown" ELSE user_id
        IN  /\ \E d \in FourDigits :
                   id = head \o "_" \o ServerDate(t) \o "_" \o d
            /\ Len(id) = Len(head) + 14
            /\ generate_session_id(user_id, "", t, digits) = id

\* C18: a session id derived because none was supplied is the user_id, '_',
\* the server date as YYYYMMDD, '_' and four zero-padded decimal digits;
\* generate_session_id puts 'unknown' in the place of an absent or empty
\* user_id.
C18_DerivedSessionId ==
    /\ DerivedSessionShape
    /\ \A e \in Event :
           RequestOf(e).data.session_id \in {Absent, ""} =>
               /\ \E d \in FourDigits :
                      e.session_id =
                          e.user_id \o "_" \o ServerDate(now) \o "_" \o d
               /\ Len(e.session_id) = Len(e.user_id) + 14

\* On 2025-09-08 an event of user u1 without session_id got the session id
\* with the digits 0007.
C18_Witness ==
    \E e \in Event :
        /\ RequestOf(e).data.session_id = Absent
        /\ e.user_id = "u1"
        /\ e.session_id = "u1_20250908_0007"

\* C19: every event captured by capture_event is stored with the peer
\* address of its request as ip_address and the User-Agent header of its
\* request ('' without one) as user_agent, whatever ip_address and
\* user_agent the payload carries; events of requests that differ only in
\* those payload fields have the same ip_address and user_agent.
C19_ServerSideMetadata ==
    /\ \A e \in Event :
           LET request == RequestOf(e)
           IN  /\ e.ip_address = request.META.REMOTE_ADDR
               /\ e.user_agent =
                      (IF request.META.HTTP_USER_AGENT = Absent THEN ""
                       ELSE request.META.HTTP_USER_AGENT)
    /\ \A e1, e2 \in Event :
           LET r1 == RequestOf(e1)
               r2 == RequestOf(e2)
           IN  ([r1.data EXCEPT !.ip_address = Absent, !.user_agent = Absent]
                  = [r2.data EXCEPT !.ip_address = Absent,
                                    !.user_agent = Absent]
                /\ r1.META = r2.META) =>
                   /\ e1.ip_address = e2.ip_address
                   /\ e1.user_agent = e2.user_agent

\* Two events of one client, one of a request whose payload claims another
\* address and user agent, both stored with the client's own.
C19_Witness ==
    \E e1, e2 \in Event :
        /\ RequestOf(e1).data.ip_address = "9.9.9.9"
        /\ RequestOf(e1).data.user_agent = "spoof"
        /\ RequestOf(e2).data.ip_address = Absent
        /\ RequestOf(e2).data.user_agent = Absent
        /\ e1.ip_address = "1.1.1.1" /\ e2.ip_address = "1.1.1.1"
        /\ e1.user_agent = "Mozilla/5.0" /\ e2.user_agent = "Mozilla/5.0"

C21_SampledBeforePersisted ==
    \A e \in Event :
        e.event_name \in high_frequency_events =>
            /\ sampling.called
            /\ sampling.event_name = e.event_name
            /\ sampling.result

\* ------------------------------------------------------ retention sweep
\* C22: a call of cleanup_old_rate_limits(days_to_keep) made at clock reading
\* now deletes from each of the two counter tables exactly the (committed)
\* rows whose minute bucket is strictly earlier than now - days_to_keep,
\* returns the two numbers of rows it deleted as (ip_deleted,
\* project_deleted), and leaves every other row as it is: a row whose bucket
\* is at or after the cutoff keeps its key, bucket and count.
C22_SweepDeletesExpired ==
    [][/\ (sweep.pc = "idle" /\ sweep'.pc = "delete_ip") =>
              /\ sweep'.cutoff_time = now - sweep'.days_to_keep * Day
              /\ IPRateLimit' = IPRateLimit
              /\ ProjectRateLimit' = ProjectRateLimit
       /\ (sweep.pc = "delete_ip" /\ sweep'.pc = "delete_project") =>
              /\ IPRateLimit' =
                     {r \in IPRateLimit : ~r.committed
                          \/ r.minute_bucket >= sweep.cutoff_time}
              /\ sweep'.ip_deleted =
                     Cardinality({r \in IPRateLimit : r.committed
                          /\ r.minute_bucket < sweep.cutoff_time})
              /\ sweep'.cutoff_time = sweep.cutoff_time
              /\ ProjectRateLimit' = ProjectRateLimit
       /\ (sweep.pc = "delete_project" /\ sweep'.pc = "idle") =>
              LET ret == sweep'.returned[Len(sweep'.returned)]
              IN  /\ ProjectRateLimit' =
                         {r \in ProjectRateLimit : ~r.committed
                              \/ r.minute_bucket >= sweep.cutoff_time}
                  /\ ret.project_deleted =
                         Cardinality({r \in ProjectRateLimit : r.committed
                              /\ r.minute_bucket < sweep.cutoff_time})
                  /\ ret.ip_deleted = sweep.ip_deleted
                  /\ Len(sweep'.returned) = Len(sweep.returned) + 1
                  /\ IPRateLimit' = IPRateLimit]_vars

\* cleanup_old_rate_limits(7) called at the start has returned (1, 1): the
\* rows that are ten days old are gone, the row that is exactly seven days
\* old and the row that is one day old are still there.
C22_Witness ==
    /\ \E i \in DOMAIN sweep.returned :
           LET ret == sweep.returned[i]
           IN  /\ ret.days_to_keep = 7 /\ ret.cutoff_time = 0 - 7 * Day
               /\ ret.ip_deleted = 1 /\ ret.project_deleted = 1
    /\ {r.minute_bucket : r \in IPRateLimit} = {0 - 7 * Day}
    /\ {r.minute_bucket : r \in ProjectRateLimit} = {0 - Day}

\* C23 as stated: when cleanup_old_rate_limits is called twice in succession
\* with the same days_to_keep and no counter is written between the calls,
\* the second call returns (0, 0).
C23_SecondSweepReturnsZero ==
    \A i \in DOMAIN sweep.returned :
        (/\ i > 1
         /\ sweep.returned[i].days_to_keep = sweep.returned[i - 1].days_to_keep
         /\ sweep.returned[i].quiet) =>
            /\ sweep.returned[i].ip_deleted = 0
            /\ sweep.returned[i].project_deleted = 0

\* C23, amended: when cleanup_old_rate_limits is called twice in succession
\* with the same days_to_keep and no counter is written between the calls,
\* the second call deletes exactly the rows whose bucket is at or after the
\* cutoff of the first call and before its own, and leaves the other rows as
\* the first call left them; it returns (0, 0) when the two cutoffs are the
\* same.
C23_SecondSweepDeletesNewlyExpired ==
    /\ [][\A table \in {1, 2} :
            LET rows == <<IPRateLimit, ProjectRateLimit>>[table]
                rows_ == <<IPRateLimit', ProjectRateLimit'>>[table]
                first == sweep.returned[Len(sweep.returned)]
            IN  (/\ sweep.pc = <<"delete_ip", "delete_project">>[table]
                 /\ sweep'.pc # sweep.pc
                 /\ sweep'.quiet
                 /\ sweep.returned # <<>>
                 /\ first.days_to_keep = sweep.days_to_keep) =>
                    /\ rows \ rows_ =
                           {r \in rows : /\ r.committed
                                         /\ r.minute_bucket >= first.cutoff_time
                                         /\ r.minute_bucket < sweep.cutoff_time}
                    /\ rows_ \subseteq rows]_vars
    /\ [](\A i \in DOMAIN sweep.returned :
            (/\ i > 1
             /\ sweep.returned[i].days_to_keep
                    = sweep.returned[i - 1].days_to_keep
             /\ sweep.returned[i].cutoff_time
                    = sweep.returned[i - 1].cutoff_time
             /\ sweep.returned[i].quiet) =>
                /\ sweep.returned[i].ip_deleted = 0
                /\ sweep.returned[i].project_deleted = 0)

\* Two calls of cleanup_old_rate_limits(7) at the same clock reading with no
\* write between them: the first returned (1, 1), the second (0, 0).
C23_Witness ==
    /\ Len(sweep.returned) >= 2
    /\ sweep.returned[1].days_to_keep = 7
    /\ sweep.returned[1].ip_deleted = 1
    /\ sweep.returned[2].days_to_keep = 7
    /\ sweep.returned[2].cutoff_time = sweep.returned[1].cutoff_time
    /\ sweep.returned[2].quiet
    /\ sweep.returned[2].ip_deleted = 0
    /\ sweep.returned[2].project_deleted = 0

\* C24: for every days_to_keep >= 0 a sweep that runs while rate-limit checks
\* run never deletes the counter row of the current minute bucket, never
\* lowers the count a later check of that bucket returns (the i-th check of a
\* bucket returns i) and never makes a check fail because its row went away
\* between the get-or-create, the increment and the re-read.
C24_SweepSafeWithChecks ==
    /\ [][\A r \in (IPRateLimit \ IPRateLimit')
                    \cup (ProjectRateLimit \ ProjectRateLimit') :
            (sweep'.pc # sweep.pc) =>
                r.minute_bucket # get_current_minute_bucket(now)]_vars
    /\ [](\A k \in Keys : \A i \in DOMAIN returns[k] :
            /\ ~returns[k][i].raised
            /\ returns[k][i].current_count = i)
    /\ [](\A p \in Procs : pc[p] # "raised")

\* C27: in the lifetime of a counter row its count never decreases.  A row
\* becomes visible with count 1, written by the check that created it; a
\* step changes the count of a row only by adding exactly 1, and it is the
\* commit of one check call on the key of the row; a row goes away only in a
\* DELETE of the retention sweep, and only when its bucket is older than
\* the sweep's horizon now - days_to_keep; key and bucket never change.
C27_CountOnlyGrows ==
    [][\A table \in {1, 2} :
        LET rows == <<IPRateLimit, ProjectRateLimit>>[table]
            rows_ == <<IPRateLimit', ProjectRateLimit'>>[table]
            scope == <<"ip", "project">>[table]
            committing(r) ==
                {p \in Procs : /\ pc[p] = "return" /\ pc'[p] = "idle"
                               /\ KeyOf(frame[p])
                                      = <<scope, r.key, r.minute_bucket>>}
        IN  /\ \A r \in rows : r.committed =>
                   IF \E x \in rows_ : x.id = r.id
                       THEN \A x \in rows_ : x.id = r.id =>
                                /\ x.committed
                                /\ x.key = r.key
                                /\ x.minute_bucket = r.minute_bucket
                                /\ x.request_count \in
                                       {r.request_count, r.request_count + 1}
                                /\ x.request_count = r.request_count + 1 =>
                                       Cardinality(committing(r)) = 1
                   ELSE /\ sweep.pc = <<"delete_ip", "delete_project">>[table]
                        /\ sweep'.pc # sweep.pc
                        /\ r.minute_bucket < sweep.cutoff_time
                        /\ sweep.cutoff_time <= now - sweep.days_to_keep * Day
            /\ \A x \in rows_ :
                   (x.committed /\ ~\E r \in rows : r.id = x.id /\ r.committed)
                       => /\ x.request_count = 1
                          /\ Cardinality(committing(x)) = 1]_vars

\* A row created by a check has been counted up to 2 while a sweep with 7
\* days to keep has deleted the rows older than that and kept the row that is
\* exactly seven days old.
C27_Witness ==
    /\ \E r \in IPRateLimit \cup ProjectRateLimit :
           r.committed /\ r.minute_bucket >= 0 /\ r.request_count = 2
    /\ \E i \in DOMAIN sweep.returned :
           sweep.returned[i].days_to_keep = 7 /\ sweep.returned[i].ip_deleted = 1
    /\ \E r \in IPRateLimit : r.minute_bucket = 0 - 7 * Day

\* C25: consumed quota is never given back.  The counters a capture request
\* has incremented stay at least at the counts its own increments returned,
\* whatever the request ended in (201, 400, 401, 429 or a failure), and no
\* step of a capture request or of a settings change lowers or removes a
\* committed counter row.
C25_QuotaNotGivenBack ==
    /\ [](\A r \in responses :
            /\ r.req.ip_key # <<>> =>
                   StoredCount(r.req.ip_key) >= r.req.ip_count
            /\ r.req.project_key # <<>> =>
                   StoredCount(r.req.project_key) >= r.req.project_count)
    /\ [](\A r \in responses : r.req.ip_key # <<>> /\ r.req.ip_count >= 1)
    /\ [][\A r \in IPRateLimit \cup ProjectRateLimit :
            r.committed =>
                \E x \in IPRateLimit' \cup ProjectRateLimit' :
                    /\ x.id = r.id /\ x.committed
                    /\ x.request_count >= r.request_count]_vars

\* Requests that ended in 400, in the tenant's 429 and in a failure of
\* validate() have been answered; the address has been counted three times
\* and the tenant of the 429 once.
C25_Witness ==
    /\ \A status \in {400, 429, 500} :
           \E r \in responses : r.status = status
    /\ \E r \in responses :
           /\ r.status = 429 /\ r.req.project_count = 1
           /\ StoredCount(r.req.project_key) = 1
    /\ \E k \in Keys : k[1] = "ip" /\ StoredCount(k) = 3

\* C26: every capture request ends in 201, 400, 401 or 429 and never in a
\* server fault, also when the tenant is deactivated between the
\* serializer's api_key check, the lookup in validate() and the view's own
\* lookup.
C26_NoServerFault ==
    \A r \in responses : r.status \in {201, 400, 401, 429}

C29_ReportedCounts ==
    \A r \in responses :
        LET returned(k, limit) ==
                {returns[k][i].current_count :
                    i \in {j \in DOMAIN returns[k] :
                              ~returns[k][j].raised
                                  /\ returns[k][j].limit = limit}}
            ip == {c \in returned(r.req.ip_key, IP_LIMIT_PER_MINUTE) :
                      /\ r.req.ip_count = c
                      /\ r.req.ip_limit = IP_LIMIT_PER_MINUTE}
            project == IF r.req.project_key = <<>> THEN {}
                ELSE LET Q == TenantOf(r.req.project_key).rate_limit_per_minute
                     IN  {c \in returned(r.req.project_key, Q) :
                             /\ r.req.project_count = c
                             /\ r.req.project_limit = Q}
        IN  /\ r.status = 201 =>
                   /\ \E c \in ip : /\ c <= IP_LIMIT_PER_MINUTE
                                     /\ r.ip_usage = ToString(c) \o "/100"
                   /\ \E c \in project :
                          LET Q == r.req.project_limit
                          IN  /\ c <= Q
                              /\ r.project_usage =
                                     ToString(c) \o "/" \o ToString(Q)
            /\ r.status = 429 =>
                   /\ r.current_count > r.limit
                   /\ \/ r.current_count \in ip /\ r.limit = r.req.ip_limit
                      \/ r.current_count \in project
                             /\ r.limit = r.req.project_limit
            /\ \A s \in responses :
                   (s # r /\ s.req.ip_key = r.req.ip_key)
                       => s.req.ip_count # r.req.ip_count
            /\ \A s \in responses :
                   (s # r /\ s.req.project_key = r.req.project_key
                        /\ r.req.project_key # <<>>)
                       => s.req.project_count # r.req.project_count

\* Two requests of one address and one tenant were answered 201, one with
\* "1/100" and "1/2", the other with "2/100" and "2/2"; a third was answered
\* 429 with current_count 3 and limit 2.
C29_Witness ==
    /\ \E r \in responses :
           r.status = 201 /\ r.ip_usage = "1/100" /\ r.project_usage = "1/2"
    /\ \E r \in responses :
           r.status = 201 /\ r.ip_usage = "2/100" /\ r.project_usage = "2/2"
    /\ \E r \in responses :
           r.status = 429 /\ r.current_count = 3 /\ r.limit = 2

\* ------------------------------------------------------ limits in effect
\* C30: capture_event checks the IP scope against the constant 100 per
\* minute whatever the tenants' settings are; check_project_rate_limit
\* compares against the tenant's rate_limit_per_minute (as it is at the call)
\* when no override is passed and against the override when one is passed;
\* the limit a check starts with is the one it compares against
\* (is_allowed = count <= limit) and returns as its third element.
C30_LimitsInEffect ==
    /\ [][\A p \in Procs :
            /\ \A request \in Requests :
                   capture_event(p, request) =>
                       frame'[p].scope = "ip" /\ frame'[p].limit = 100
            /\ \A project \in Project, limit \in LimitOverrides :
                   check_project_rate_limit(p, project, limit) =>
                       /\ frame'[p].scope = "project"
                       /\ frame'[p].key = project.id
                       /\ limit = None =>
                              frame'[p].limit = project.rate_limit_per_minute
                       /\ limit # None => frame'[p].limit = limit
            /\ (pc[p] = "lookup" /\ frame'[p] # frame[p]) =>
                   \E t \in Project :
                       /\ t.api_key = req[p].request.data.api_key
                       /\ frame'[p].key = t.id
                       /\ frame'[p].limit = t.rate_limit_per_minute
            /\ (pc[p] # "idle" /\ pc'[p] \notin {"idle", "ip_checked",
                                                 "project_checked"}
                    /\ pc[p] \notin {"ip_checked", "validate", "lookup",
                                     "project_checked"}) =>
                   frame'[p].limit = frame[p].limit
            /\ (pc[p] = "return" /\ pc'[p] # "return") =>
                   LET k == KeyOf(frame[p])
                       ret == returns'[k][Len(returns'[k])]
                   IN  /\ Len(returns'[k]) = Len(returns[k]) + 1
                       /\ ret.limit = frame[p].limit
                       /\ ret.current_count = frame[p].request_count
                       /\ ret.allowed =
                              (frame[p].request_count <= frame[p].limit)]_vars
    /\ [](\A r \in responses :
            /\ r.req.ip_limit = 100
            /\ r.req.ip_allowed = (r.req.ip_count <= 100))

\* The tenant alpha, counted three times in one bucket, was checked against
\* its own limit 2, against the override 0 and against the override 5.
C30_Witness ==
    \E k \in ProjectKeys :
        /\ k[2] = "P1"
        /\ Len(returns[k]) = 3
        /\ {returns[k][i].limit : i \in 1..3} = {0, 2, 5}
        /\ \E i \in 1..3 : returns[k][i].limit = 5 /\ returns[k][i].allowed
        /\ \E i \in 1..3 : returns[k][i].limit = 0 /\ ~returns[k][i].allowed

\* C31: the client IP of a request is the stripped first entry of its
\* forwarded-for chain when the header is present and not empty, else its
\* peer address: the IP counter the request was checked on is keyed by it,
\* the anonymous user_id is derived from it and the event is persisted with
\* it; requests with the same first forwarded entry are counted on one IP
\* counter whatever their peer addresses are.
C31_ClientIP ==
    LET chain(r) == r.req.request.META.HTTP_X_FORWARDED_FOR
        client(r) == IF chain(r) \notin {<<>>, <<"">>}
                         THEN strip(Head(chain(r)))
                     ELSE r.req.request.META.REMOTE_ADDR
    IN  /\ \A r \in responses :
               /\ r.req.ip_key # <<>> => r.req.ip_key[1] = "ip"
                                          /\ r.req.ip_key[2] = client(r)
               /\ \A e \in Persisted(r) :
                      /\ e.ip_address = client(r)
                      /\ e.user_id = "anon_" \o sha256_hex8(
                             client(r) \o ":" \o
                             r.req.request.META.HTTP_USER_AGENT)
        /\ \A r1, r2 \in responses :
               /\ chain(r1) \notin {<<>>, <<"">>}
               /\ chain(r2) \notin {<<>>, <<"">>}
               /\ Head(chain(r1)) = Head(chain(r2))
               /\ r1.req.n # r2.req.n
               => /\ r1.req.ip_key[2] = r2.req.ip_key[2]
                  /\ r1.req.ip_key[3] = r2.req.ip_key[3]
                         => r1.req.ip_count # r2.req.ip_count

\* Two requests from different peers with the same padded first forwarded
\* entry were counted 1 and 2 on the counter of 1.1.1.1 and persisted, and a
\* request whose header is empty was counted 1 on its peer's counter.
C31_Witness ==
    /\ \E r1, r2 \in responses :
           /\ r1.req.request.META.HTTP_X_FORWARDED_FOR =
                  <<" 1.1.1.1 ", "2.2.2.2">>
           /\ r2.req.request.META.HTTP_X_FORWARDED_FOR =
                  <<" 1.1.1.1 ", "2.2.2.2">>
           /\ r1.req.request.META.REMOTE_ADDR = "1.1.1.1"
           /\ r2.req.request.META.REMOTE_ADDR = "2.2.2.2"
           /\ r1.req.ip_key[2] = "1.1.1.1" /\ r2.req.ip_key[2] = "1.1.1.1"
           /\ {r1.req.ip_count, r2.req.ip_count} = {1, 2}
           /\ r1.status = 201 /\ r2.status = 201
           /\ \E e \in Persisted(r2) :
                  e.ip_address = "1.1.1.1" /\ e.user_id = "anon_cd05638b"
    /\ \E r \in responses :
           /\ r.req.request.META.HTTP_X_FORWARDED_FOR = <<"">>
           /\ r.req.request.META.REMOTE_ADDR = "2.2.2.2"
           /\ r.req.ip_key[2] = "2.2.2.2"
           /\ r.req.ip_count = 1

\* C32: under fair scheduling every capture request that was taken up is
\* eventually answered and every sweep that was started eventually returns,
\* whatever counters the requests and the sweeps contend on.
C32_NoDeadlock ==
    /\ \A p \in Procs :
           (req[p].n = p) ~> (\E r \in responses : r.req.n = p)
    /\ (sweep.pc # "idle") ~> (sweep.pc = "idle")

\* A request waits with its INSERT for the counter row another request has
\* inserted and not yet committed, while a sweep that has been started has
\* not yet returned.
C32_Witness ==
    \E p, q \in Procs :
        /\ p # q
        /\ pc[p] = "create"
        /\ \E r \in ConflictingRows(Table(frame[p].scope), frame[p].key,
                                     frame[p].minute_bucket) :
               r.writer = q /\ ~r.committed
        /\ ~ENABLED get_or_create_create(p)
        /\ sweep.pc # "idle"

\* C33: the events persisted by requests whose tenant check ran on one
\* tenant counter never outnumber the tenant's quota, and the events
\* persisted by requests whose IP check ran on one IP counter never outnumber
\* the requests the IP limit of 100 left to that counter: the persisted
\* requests of a counter hold distinct counts between 1 and the limit.
C33_PersistedWithinQuota ==
    /\ \A k \in ProjectKeys :
           LET saved == {r \in Admitted(k) : Persisted(r) # {}}
               events == UNION {Persisted(r) : r \in saved}
           IN  /\ Cardinality(events) <= TenantOf(k).rate_limit_per_minute
               /\ \A r \in saved :
                      r.req.project_count \in
                          1..TenantOf(k).rate_limit_per_minute
               /\ \A r1, r2 \in saved :
                      r1 # r2 => r1.req.project_count # r2.req.project_count
    /\ \A k \in Keys \ ProjectKeys :
           LET saved == {r \in responses :
                            r.req.ip_key = k /\ Persisted(r) # {}}
               events == UNION {Persisted(r) : r \in saved}
           IN  /\ Cardinality(events) <= IP_LIMIT_PER_MINUTE
               /\ \A r \in saved :
                      r.req.ip_count \in 1..IP_LIMIT_PER_MINUTE
               /\ \A r1, r2 \in saved :
                      r1 # r2 => r1.req.ip_count # r2.req.ip_count

\* The quota of alpha is used up by two persisted events, one of them from
\* the request that took the last count the IP limit allows its address, and
\* a third request was rejected for the tenant with count 3.
C33_Witness ==
    \E k \in ProjectKeys :
        /\ TenantOf(k).rate_limit_per_minute = 2
        /\ Cardinality(UNION {Persisted(r) : r \in Admitted(k)}) = 2
        /\ \E r \in Admitted(k) :
               /\ Persisted(r) # {}
               /\ r.req.ip_count = IP_LIMIT_PER_MINUTE
        /\ \E r \in Admitted(k) :
               /\ r.status = 429
               /\ r.req.project_count = 3
               /\ Persisted(r) = {}

\* C34: the view's lookup answers 401 only when the tenant that validation
\* found active is no longer active at the lookup, and field validation
\* answers 400 to every request it is reached by whose api_key is missing or
\* is not the key of an active tenant.
C34_UnauthorizedOnlyOnChange ==
    [][\A p \in Procs :
          /\ (\E r \in responses' \ responses :
                  r.req.n = p /\ r.status = 401)
             => ~\E t \in Project :
                    t.id = req[p].attrs_project /\ t.is_active
          /\ (/\ pc[p] = "ip_checked" /\ pc'[p] # "ip_checked"
              /\ req[p].ip_allowed
              /\ ActiveProject(Project, req[p].request.data.api_key) = {})
             => \E r \in responses' \ responses :
                    /\ r.req.n = p /\ r.status = 400
                    /\ \E e \in r.errors : e[1] = "api_key"]_vars

C36_SessionIdFits ==
    /\ \A e \in Event : Len(e.session_id) <= max_length
    /\ \A r \in responses :
           r.status = 500 => ~Oversized(NewEvent(r.req))

\* C37: a step in which get_stats, get_events or get_projects answers a
\* call, or in which project_settings changes a tenant, leaves every IP
\* counter row, every tenant counter row and the stored events as they are.
C37_ReadsConsumeNoQuota ==
    [][(\/ \E r \in responses' \ responses : "endpoint" \in DOMAIN r
        \/ Project' # Project)
       => /\ IPRateLimit' = IPRateLimit
          /\ ProjectRateLimit' = ProjectRateLimit
          /\ Event' = Event]_vars

\* After a capture request stored an event, get_stats and get_events for
\* the tenant answered with that event, and each counter still shows the one
\* request.
C37_Witness ==
    /\ \E r \in responses :
           /\ "endpoint" \in DOMAIN r /\ r.endpoint = "get_stats"
           /\ r.status = 200 /\ r.body = 1
    /\ \E r \in responses :
           /\ "endpoint" \in DOMAIN r /\ r.endpoint = "get_events"
           /\ r.status = 200 /\ r.body = {1}
    /\ Cardinality(Event) = 1
    /\ \A r \in IPRateLimit \cup ProjectRateLimit :
           r.committed /\ r.request_count = 1
    /\ IPRateLimit # {} /\ ProjectRateLimit # {}

====
